---------------------------- MODULE Spec2Model ----------------------------
(***************************************************************************)
(* State-machine model of luk3rr/SUDOKU_SOLVER.                            *)
(*                                                                         *)
(*   - rbtree::RedBlackTree / rbtree::Map  (include/lib/red_black_tree.h,  *)
(*     include/lib/map.h): pointer-level model, specification SpecMap.     *)
(*   - sudoku::Solver with graph::Graph, slkd::Queue, slkd::Stack and      *)
(*     bheap::PriorityQueue (src/solver.cc): specification SpecSolver.     *)
(***************************************************************************)
EXTENDS Integers, Sequences, FiniteSets, TLC

VARIABLES
    \* ---- rbtree::RedBlackTree<typeT> under test (SpecTree) ----
    m_tree,       \* the tree: [root, nodes, numNodes]
    \* ---- rbtree::Map<typeK, typeV> under test (SpecMap) ----
    m_map,        \* the map's tree: [root, nodes, numNodes]
    m_ret,        \* what the last map operation returned / threw
    refKeys,      \* reference set: keys inserted and not removed since
    refLast,      \* reference: the last value set for each key
    \* ---- sudoku::Solver (SpecSolver) ----
    m_startGrid,          \* Solver::m_startGrid
    m_algorithm,          \* Solver::m_algorithm
    m_vertexSolutionID,   \* Solver::m_vertexSolutionID
    m_expandedStates,     \* Solver::m_expandedStates
    m_graph,              \* Solver::m_graph
    frontier,     \* the running algorithm's queue / stack / minPQueue
    depth,        \* IDDFS: the depth of the running iteration
    solved,       \* what the algorithm returned: "none" while it has not
    pc,           \* where the call of Solve stands
    \* ---- bheap::PriorityQueue<Vertex*, Compare> under test (SpecHeap) ----
    m_heap,       \* BinaryHeap::m_heap, the vertex IDs held
    m_comp,       \* BinaryHeap::m_comp, by the name of its Compare
    heapRet,      \* what the last queue operation returned / threw
    heapPushed,       \* reference: how often each element is held
    drained,      \* reference: the elements taken out since the last Push
    \* ---- graph::Graph<..., directed> under test (SpecGraph) ----
    graph,        \* the graph: [directed, m_vertices, m_edges, counters]
    graphRet,     \* what the last graph operation returned
    graphCalls,   \* reference: calls counted since the last Destroy
    released,     \* reference: how often each Edge object was deleted
    epoch         \* reference: the number of Destroy calls so far

treeVars == <<m_tree>>

mapVars == <<m_map, m_ret, refKeys, refLast>>

solverVars == <<m_startGrid, m_algorithm, m_vertexSolutionID, m_expandedStates,
                m_graph, frontier, depth, solved, pc>>

heapVars == <<m_heap, m_comp, heapRet, heapPushed, drained>>

graphVars == <<graph, graphRet, graphCalls, released, epoch>>

vars == <<m_tree, m_map, m_ret, refKeys, refLast, m_startGrid, m_algorithm,
          m_vertexSolutionID, m_expandedStates, m_graph, frontier, depth, solved, pc,
          m_heap, m_comp, heapRet, heapPushed, drained,
          graph, graphRet, graphCalls, released, epoch>>

-----------------------------------------------------------------------------
(* Bounds of the model *)

MaxTreeKey == 5
MaxKey == 3
MaxVal == 1

TreeKeys == 1..MaxTreeKey
Keys     == 1..MaxKey
Values   == 0..MaxVal

-----------------------------------------------------------------------------
(***************************************************************************)
(* rbtree::Node and rbtree::RedBlackTree                                   *)
(*                                                                         *)
(* A tree is [root, nodes, numNodes]; nodes maps the address of every      *)
(* allocated Node to [key, val, color, parent, left, right]. NIL is        *)
(* nullptr. The value type is Pair<typeK, typeV>, compared by key only.    *)
(***************************************************************************)

NIL == 0

BLACK == "BLACK"
RED   == "RED"

DefaultValue == 0

EmptyTree == [root |-> NIL, nodes |-> <<>>, numNodes |-> 0]

PairLess(a, b)  == a < b
PairEqual(a, b) == a = b

NewNode(key, val, parent) ==
    [key |-> key, val |-> val, color |-> RED,
     parent |-> parent, left |-> NIL, right |-> NIL]

\* operator new: an address not in use. Keys are unique in a tree, so the
\* address is named after the key; a clash takes the next free address.
MaxAddr(S) == IF S = {} THEN 0 ELSE CHOOSE m \in S : \A x \in S : x <= m

Alloc(t, key) ==
    IF key \notin DOMAIN t.nodes THEN key
    ELSE MaxAddr(DOMAIN t.nodes \cup TreeKeys \cup Keys) + 1

SetColor(t, n, c)     == [t EXCEPT !.nodes[n].color = c]
SetParent(t, n, p)    == [t EXCEPT !.nodes[n].parent = p]
SetLeftNode(t, n, l)  == [t EXCEPT !.nodes[n].left = l]
SetRightNode(t, n, r) == [t EXCEPT !.nodes[n].right = r]

\* a RotateLeft that leaves the parent link of the subtree it moves
RotateLeftStaleParent(t, node) ==
    IF node = NIL \/ t.nodes[node].right = NIL THEN t
    ELSE
      LET pivot == t.nodes[node].right
          t1 == SetRightNode(t, node, t.nodes[pivot].left)
          t3 == SetParent(t1, pivot, t1.nodes[node].parent)
          np == t3.nodes[node].parent
          t4 == IF np = NIL THEN [t3 EXCEPT !.root = pivot]
                ELSE IF node = t3.nodes[np].left THEN SetLeftNode(t3, np, pivot)
                ELSE SetRightNode(t3, np, pivot)
          t5 == SetLeftNode(t4, pivot, node)
      IN  SetParent(t5, node, pivot)

RotateLeft(t, node) ==
    IF node = NIL \/ t.nodes[node].right = NIL THEN t
    ELSE
      LET pivot == t.nodes[node].right
          t1 == SetRightNode(t, node, t.nodes[pivot].left)
          t2 == IF t1.nodes[pivot].left # NIL
                THEN SetParent(t1, t1.nodes[pivot].left, node) ELSE t1
          t3 == SetParent(t2, pivot, t2.nodes[node].parent)
          np == t3.nodes[node].parent
          t4 == IF np = NIL THEN [t3 EXCEPT !.root = pivot]
                ELSE IF node = t3.nodes[np].left THEN SetLeftNode(t3, np, pivot)
                ELSE SetRightNode(t3, np, pivot)
          t5 == SetLeftNode(t4, pivot, node)
      IN  SetParent(t5, node, pivot)

RotateRight(t, node) ==
    IF node = NIL \/ t.nodes[node].left = NIL THEN t
    ELSE
      LET pivot == t.nodes[node].left
          t1 == SetLeftNode(t, node, t.nodes[pivot].right)
          t2 == IF t1.nodes[pivot].right # NIL
                THEN SetParent(t1, t1.nodes[pivot].right, node) ELSE t1
          t3 == SetParent(t2, pivot, t2.nodes[node].parent)
          np == t3.nodes[node].parent
          t4 == IF np = NIL THEN [t3 EXCEPT !.root = pivot]
                ELSE IF node = t3.nodes[np].left THEN SetLeftNode(t3, np, pivot)
                ELSE SetRightNode(t3, np, pivot)
          t5 == SetRightNode(t4, pivot, node)
      IN  SetParent(t5, node, pivot)

\* a FixInsert that blackens the root and does nothing else
FixInsertRootOnly(t, node) == SetColor(t, t.root, BLACK)

RECURSIVE FixInsert(_, _)
FixInsert(t, node) ==
    IF node # t.root /\ t.nodes[node].parent # NIL
       /\ t.nodes[t.nodes[node].parent].color = RED
    THEN
      LET p == t.nodes[node].parent
          g == t.nodes[p].parent
      IN
      IF p = t.nodes[g].right
      THEN
        LET uncle == t.nodes[g].left IN
        IF uncle # NIL /\ t.nodes[uncle].color = RED
        THEN FixInsert(SetColor(SetColor(SetColor(t, uncle, BLACK), p, BLACK), g, RED), g)
        ELSE
          LET inner == (node = t.nodes[p].left)
              n1 == IF inner THEN p ELSE node
              t1 == IF inner THEN RotateRight(t, p) ELSE t
              p1 == t1.nodes[n1].parent
              t2 == SetColor(t1, p1, BLACK)
              g1 == t2.nodes[p1].parent
              t3 == SetColor(t2, g1, RED)
          IN  FixInsert(RotateLeft(t3, g1), n1)
      ELSE
        LET uncle == t.nodes[g].right IN
        IF uncle # NIL /\ t.nodes[uncle].color = RED
        THEN FixInsert(SetColor(SetColor(SetColor(t, uncle, BLACK), p, BLACK), g, RED), g)
        ELSE
          LET inner == (node = t.nodes[p].right)
              n1 == IF inner THEN p ELSE node
              t1 == IF inner THEN RotateLeft(t, p) ELSE t
              p1 == t1.nodes[n1].parent
              t2 == SetColor(t1, p1, BLACK)
              g1 == t2.nodes[p1].parent
              t3 == SetColor(t2, g1, RED)
          IN  FixInsert(RotateRight(t3, g1), n1)
    ELSE SetColor(t, t.root, BLACK)

\* Insert(parent, node, key): node is the child slot `side` of parent.
RECURSIVE InsertAt(_, _, _, _, _)
InsertAt(t, parent, side, key, val) ==
    LET node == t.nodes[parent][side] IN
    IF node = NIL
    THEN
      LET a  == Alloc(t, key)
          t1 == [t EXCEPT !.numNodes = @ + 1,
                          !.nodes = [n \in DOMAIN t.nodes \cup {a} |->
                                       IF n = a THEN NewNode(key, val, parent)
                                       ELSE IF n = parent
                                            THEN [t.nodes[n] EXCEPT ![side] = a]
                                            ELSE t.nodes[n]]]
      IN  [t |-> FixInsert(t1, a), node |-> a]
    ELSE IF PairEqual(t.nodes[node].key, key) THEN [t |-> t, node |-> node]
    ELSE IF PairLess(key, t.nodes[node].key)
         THEN InsertAt(t, node, "left", key, val)
         ELSE InsertAt(t, node, "right", key, val)

\* Insert(key) whose first node is linked as the root without m_numNodes++
TreeInsertUncountedRoot(t, key, val) ==
    IF t.root = NIL
    THEN
      LET a == Alloc(t, key) IN
      [t |-> [root |-> a,
              nodes |-> [n \in DOMAIN t.nodes \cup {a} |->
                           IF n = a THEN [NewNode(key, val, NIL) EXCEPT !.color = BLACK]
                           ELSE t.nodes[n]],
              numNodes |-> t.numNodes],
       node |-> a]
    ELSE IF PairEqual(t.nodes[t.root].key, key) THEN [t |-> t, node |-> t.root]
    ELSE IF PairLess(key, t.nodes[t.root].key)
         THEN InsertAt(t, t.root, "left", key, val)
         ELSE InsertAt(t, t.root, "right", key, val)

TreeInsert(t, key, val) ==
    IF t.root = NIL
    THEN
      LET a == Alloc(t, key) IN
      [t |-> [root |-> a,
              nodes |-> [n \in DOMAIN t.nodes \cup {a} |->
                           IF n = a THEN [NewNode(key, val, NIL) EXCEPT !.color = BLACK]
                           ELSE t.nodes[n]],
              numNodes |-> t.numNodes + 1],
       node |-> a]
    ELSE IF PairEqual(t.nodes[t.root].key, key) THEN [t |-> t, node |-> t.root]
    ELSE IF PairLess(key, t.nodes[t.root].key)
         THEN InsertAt(t, t.root, "left", key, val)
         ELSE InsertAt(t, t.root, "right", key, val)

RECURSIVE SearchFrom(_, _, _)
SearchFrom(t, node, key) ==
    IF node = NIL \/ PairEqual(key, t.nodes[node].key) THEN node
    ELSE IF PairLess(key, t.nodes[node].key)
         THEN SearchFrom(t, t.nodes[node].left, key)
         ELSE SearchFrom(t, t.nodes[node].right, key)

Search(t, key) == SearchFrom(t, t.root, key)


\* Transplant(node1, node2): node2 takes node1's place under node1's parent.
Transplant(t, node1, node2) ==
    LET p  == t.nodes[node1].parent
        t1 == IF p = NIL THEN [t EXCEPT !.root = node2]
              ELSE IF node1 = t.nodes[p].left THEN SetLeftNode(t, p, node2)
              ELSE SetRightNode(t, p, node2)
    IN  IF node2 # NIL THEN SetParent(t1, node2, t1.nodes[node1].parent) ELSE t1

RECURSIVE LeftMost(_, _)
LeftMost(t, node) ==
    IF t.nodes[node].left # NIL THEN LeftMost(t, t.nodes[node].left) ELSE node

RECURSIVE ClimbRight(_, _, _)
ClimbRight(t, node, parent) ==
    IF parent # NIL /\ node = t.nodes[parent].right
    THEN ClimbRight(t, parent, t.nodes[parent].parent)
    ELSE parent

FindSuccessor(t, node) ==
    IF t.nodes[node].right # NIL
    THEN LeftMost(t, t.nodes[node].right)
    ELSE ClimbRight(t, node, t.nodes[node].parent)

\* One pass of the while loop of FixDelete per call; the trailing
\* `if (node != nullptr) node->SetColor(BLACK)` is the exit.
RECURSIVE FixDelete(_, _)
FixDelete(t, node) ==
    IF node # t.root /\ node # NIL /\ t.nodes[node].color = BLACK
    THEN
      LET p == t.nodes[node].parent IN
      IF node = t.nodes[p].left
      THEN
        LET aux == t.nodes[p].right IN
        IF aux # NIL
        THEN
          LET al == t.nodes[aux].left
              ar == t.nodes[aux].right
          IN
          IF t.nodes[aux].color = RED
          THEN FixDelete(RotateLeft(SetColor(SetColor(t, aux, BLACK), p, RED), p), node)
          ELSE IF al # NIL /\ t.nodes[al].color = BLACK
                  /\ ar # NIL /\ t.nodes[ar].color = BLACK
          THEN FixDelete(SetColor(t, aux, RED), p)
          ELSE IF ar # NIL /\ t.nodes[ar].color = BLACK /\ al # NIL
          THEN FixDelete(RotateRight(SetColor(SetColor(t, al, BLACK), aux, RED), aux), node)
          ELSE
            LET t1 == SetColor(t, aux, t.nodes[p].color)
                t2 == SetColor(t1, p, BLACK)
                t3 == IF ar # NIL THEN SetColor(t2, ar, BLACK) ELSE t2
                t4 == RotateLeft(t3, p)
            IN  FixDelete(t4, t4.root)
        ELSE SetColor(t, node, BLACK)
      ELSE
        LET aux == t.nodes[p].left IN
        IF aux # NIL
        THEN
          LET al == t.nodes[aux].left
              ar == t.nodes[aux].right
          IN
          IF t.nodes[aux].color = RED
          THEN FixDelete(RotateRight(SetColor(SetColor(t, aux, BLACK), p, RED), p), node)
          ELSE IF al # NIL /\ t.nodes[al].color = BLACK
                  /\ ar # NIL /\ t.nodes[ar].color = BLACK
          THEN FixDelete(SetColor(t, aux, RED), p)
          ELSE IF al # NIL /\ t.nodes[al].color = BLACK /\ ar # NIL
          THEN FixDelete(RotateLeft(SetColor(SetColor(t, ar, BLACK), aux, RED), aux), node)
          ELSE
            LET t1 == SetColor(t, aux, t.nodes[p].color)
                t2 == SetColor(t1, p, BLACK)
                t3 == IF al # NIL THEN SetColor(t2, al, BLACK) ELSE t2
                t4 == RotateRight(t3, p)
            IN  FixDelete(t4, t4.root)
        ELSE SetColor(t, node, BLACK)
    ELSE IF node # NIL THEN SetColor(t, node, BLACK) ELSE t

\* delete node
Free(t, node) ==
    [t EXCEPT !.nodes = [n \in DOMAIN t.nodes \ {node} |-> t.nodes[n]]]

\* the tail of DeleteNode: m_numNodes--, the fix-up when a BLACK node left
\* the tree, delete node
\* DeleteNode's tail with the m_numNodes-- left out
DeleteTailKeepingCount(t, node, aux, nodeColor) ==
    Free(IF nodeColor = BLACK THEN FixDelete(t, aux) ELSE t, node)

DeleteTail(t, node, aux, nodeColor) ==
    LET t1 == [t EXCEPT !.numNodes = @ - 1]
        t2 == IF nodeColor = BLACK THEN FixDelete(t1, aux) ELSE t1
    IN  Free(t2, node)

DeleteNode(t, node) ==
    IF node = NIL THEN t
    ELSE IF t.nodes[node].left = NIL
    THEN DeleteTail(Transplant(t, node, t.nodes[node].right),
                    node, t.nodes[node].right, t.nodes[node].color)
    ELSE IF t.nodes[node].right = NIL
    THEN DeleteTail(Transplant(t, node, t.nodes[node].left),
                    node, t.nodes[node].left, t.nodes[node].color)
    ELSE
      LET nodeCopy  == FindSuccessor(t, node)
          nodeColor == t.nodes[nodeCopy].color
          aux       == t.nodes[nodeCopy].right
          t1 == IF aux # NIL /\ t.nodes[nodeCopy].parent = node
                THEN SetParent(t, aux, nodeCopy)
                ELSE
                  LET a == Transplant(t, nodeCopy, t.nodes[nodeCopy].right)
                      b == SetRightNode(a, nodeCopy, a.nodes[node].right)
                      r == b.nodes[nodeCopy].right
                  IN  IF r # NIL /\ b.nodes[r].parent # NIL
                      THEN SetParent(b, r, nodeCopy) ELSE b
          t2 == Transplant(t1, node, nodeCopy)
          t3 == SetLeftNode(t2, nodeCopy, t2.nodes[node].left)
          t4 == SetParent(t3, t3.nodes[nodeCopy].left, nodeCopy)
          t5 == SetColor(t4, nodeCopy, t4.nodes[node].color)
      IN  DeleteTail(t5, node, aux, nodeColor)

TreeRemove(t, key) == DeleteNode(t, Search(t, key))

\* Clear(node): post-order delete, m_numNodes-- per node
RECURSIVE ClearFrom(_, _)
ClearFrom(t, node) ==
    IF node # NIL
    THEN
      LET t1 == ClearFrom(t, t.nodes[node].left)
          t2 == ClearFrom(t1, t.nodes[node].right)
      IN  [Free(t2, node) EXCEPT !.numNodes = @ - 1]
    ELSE t

TreeClear(t) == [ClearFrom(t, t.root) EXCEPT !.root = NIL]

TreeSize(t) == t.numNodes

-----------------------------------------------------------------------------
(***************************************************************************)
(* rbtree::Map<typeK, typeV>: the tree over Pair<typeK, typeV>             *)
(***************************************************************************)

\* an Insert(key, value) that also assigns value to a key already present
MapInsertAssigning(t, key, value) ==
    LET r == TreeInsert(t, key, value) IN
    [t |-> [r.t EXCEPT !.nodes[r.node].val = value], node |-> r.node]

\* Map::Insert(key, value): the node holding key, created with value if absent
MapInsert(t, key, value) == TreeInsert(t, key, value)

\* Map::At / Map::operator[]: a reference to the value of key, inserted with
\* typeV() if absent
MapAt(t, key) == TreeInsert(t, key, DefaultValue)

\* a Get(key) that inserts an absent key the way At does and never throws
MapGetOrInsert(t, key) ==
    LET r == TreeInsert(t, key, DefaultValue) IN
    [t |-> r.t, threw |-> FALSE, node |-> r.node]

\* Map::Get: the node holding key, or std::out_of_range
MapGet(t, key) ==
    LET node == Search(t, key) IN
    [t |-> t, threw |-> (node = NIL), node |-> node]

MapContains(t, key) == Search(t, key) # NIL

MapRemove(t, key) == TreeRemove(t, key)

MapClear(t) == TreeClear(t)

MapSize(t) == TreeSize(t)

\* an assignment through a typeV& handed out by At / operator[] / Get
SetSecond(t, node, value) == [t EXCEPT !.nodes[node].val = value]

\* Map::begin(): the leftmost node, nullptr for an empty map
MapBegin(t) == IF t.root = NIL THEN NIL ELSE LeftMost(t, t.root)

MapEnd == NIL

RECURSIVE ClimbLeft(_, _)
ClimbLeft(t, ptr) ==
    IF t.nodes[ptr].parent = NIL THEN NIL
    ELSE IF ptr = t.nodes[t.nodes[ptr].parent].left THEN t.nodes[ptr].parent
    ELSE ClimbLeft(t, t.nodes[ptr].parent)

\* an operator++ that steps to the parent instead of climbing to the first
\* ancestor reached from its left subtree
IteratorNextParent(t, ptr) ==
    IF ptr = NIL THEN ptr
    ELSE IF t.nodes[ptr].right # NIL THEN LeftMost(t, t.nodes[ptr].right)
    ELSE t.nodes[ptr].parent

\* Map::Iterator::operator++
IteratorNext(t, ptr) ==
    IF ptr = NIL THEN ptr
    ELSE IF t.nodes[ptr].right # NIL THEN LeftMost(t, t.nodes[ptr].right)
    ELSE ClimbLeft(t, ptr)

\* for (auto& pair : map): the keys visited from begin() until end(); fuel
\* cuts a walk that would not stop and marks it with a trailing NIL
RECURSIVE IterateFrom(_, _, _)
IterateFrom(t, ptr, fuel) ==
    IF ptr = MapEnd THEN <<>>
    ELSE IF fuel = 0 THEN <<NIL>>
    ELSE <<t.nodes[ptr].key>> \o IterateFrom(t, IteratorNext(t, ptr), fuel - 1)

MapIterate(t) == IterateFrom(t, MapBegin(t), Cardinality(DOMAIN t.nodes) + 1)

-----------------------------------------------------------------------------
(***************************************************************************)
(* The puzzle grid (constants.h, grid_utils.cc)                             *)
(***************************************************************************)

GRID_SIZE == 9
SUBGRID_SIZE == 3

Index  == 0..(GRID_SIZE - 1)
Digits == 1..GRID_SIZE
Cells  == Index \X Index

IsInRow(grid, row, num) == \E col \in Index : grid[<<row, col>>] = num

\* an IsInCol that finds nothing
IsInNoCol(grid, col, num) == FALSE

IsInCol(grid, col, num) == \E row \in Index : grid[<<row, col>>] = num

IsInBox(grid, row, col, num) ==
    \E x \in 0..(SUBGRID_SIZE - 1), y \in 0..(SUBGRID_SIZE - 1) :
        grid[<<(row - (row % SUBGRID_SIZE)) + x, (col - (col % SUBGRID_SIZE)) + y>>] = num

\* an IsValid that looks at the row only
IsValidInRow(grid, row, col, num) == ~IsInRow(grid, row, num)

IsValid(grid, row, col, num) ==
    ~IsInRow(grid, row, num) /\ ~IsInCol(grid, col, num) /\ ~IsInBox(grid, row, col, num)

\* the first cell holding 0 in row-major order; row = col = GRID_SIZE and
\* found = FALSE when both loops run out
FindEmptyCell(grid) ==
    IF \E cell \in Cells : grid[cell] = 0
    THEN LET cell == CHOOSE e \in Cells :
                        /\ grid[e] = 0
                        /\ \A o \in Cells :
                              grid[o] = 0 =>
                                 e[1] * GRID_SIZE + e[2] <= o[1] * GRID_SIZE + o[2]
         IN  [found |-> TRUE, row |-> cell[1], col |-> cell[2]]
    ELSE [found |-> FALSE, row |-> GRID_SIZE, col |-> GRID_SIZE]

\* ApplyChanges writing a cell only while it is empty
RECURSIVE ApplyFirstChangesFrom(_, _, _)
ApplyFirstChangesFrom(grid, state, i) ==
    IF i > Len(state) THEN grid
    ELSE ApplyFirstChangesFrom(
             IF grid[state[i][1]] = 0 THEN [grid EXCEPT ![state[i][1]] = state[i][2]]
             ELSE grid, state, i + 1)

\* state[i] = <<<<row, col>>, change>>, applied in order from index i
RECURSIVE ApplyChangesFrom(_, _, _)
ApplyChangesFrom(grid, state, i) ==
    IF i > Len(state) THEN grid
    ELSE ApplyChangesFrom([grid EXCEPT ![state[i][1]] = state[i][2]], state, i + 1)

ApplyChanges(grid, state) == ApplyChangesFrom(grid, state, 1)

CopyGrid(source) == [cell \in Cells |-> source[cell]]

\* IsSolved answering false for every grid
IsNeverSolved(grid) == FALSE

IsSolved(grid) == \A cell \in Cells : grid[cell] # 0

\* GridIsValid is declared in grid_utils.h and has no definition in the
\* sources; modelled from the specification: every cell holds 0..GRID_SIZE
\* and no digit occurs twice in a row, a column or a box.
Units ==
    { { <<row, col>> : col \in Index } : row \in Index }
        \cup { { <<row, col>> : row \in Index } : col \in Index }
        \cup { { <<SUBGRID_SIZE * boxRow + x, SUBGRID_SIZE * boxCol + y>> :
                    x \in 0..(SUBGRID_SIZE - 1), y \in 0..(SUBGRID_SIZE - 1) } :
                 boxRow \in 0..(SUBGRID_SIZE - 1), boxCol \in 0..(SUBGRID_SIZE - 1) }

GridIsValid(grid) ==
    /\ \A cell \in Cells : grid[cell] \in 0..GRID_SIZE
    /\ \A unit \in Units :
          \A num \in Digits : Cardinality({ cell \in unit : grid[cell] = num }) <= 1

-----------------------------------------------------------------------------
(***************************************************************************)
(* Start grids handed to Solver::Solver                                    *)
(***************************************************************************)

MaxGrid == 8

MaxCost == 2

\* a complete grid that breaks no rule
BaseGrid ==
    [cell \in Cells |->
        ((SUBGRID_SIZE * (cell[1] % SUBGRID_SIZE) + (cell[1] \div SUBGRID_SIZE) + cell[2])
            % GRID_SIZE) + 1]

Blank(grid, cells) == [cell \in Cells |-> IF cell \in cells THEN 0 ELSE grid[cell]]

Put(grid, cell, num) == [grid EXCEPT ![cell] = num]

StartGrid(i) ==
    CASE i = 1 -> Blank(BaseGrid, {<<4, 4>>})
      [] i = 2 -> Blank(BaseGrid, {<<0, 0>>, <<8, 8>>})
      [] i = 3 -> Blank(BaseGrid, {<<3, 2>>, <<3, 5>>, <<4, 2>>})
      [] i = 4 -> Put(Blank(BaseGrid, {<<2, 1>>, <<0, 7>>, <<2, 8>>}), <<2, 7>>, 8)
      [] i = 5 -> Put(Blank(BaseGrid, {<<1, 3>>, <<1, 5>>, <<4, 7>>, <<7, 3>>, <<8, 5>>}),
                      <<7, 5>>, 9)
      [] i = 6 -> BaseGrid
      [] i = 7 -> Put(BaseGrid, <<0, 0>>, 2)
      [] i = 8 -> Blank(BaseGrid, {<<3, 5>>, <<3, 8>>, <<4, 5>>})
      [] i = 9 -> Blank(BaseGrid, {<<0, 0>>, <<4, 4>>, <<8, 8>>})
      [] OTHER -> BaseGrid

StartGridTable == [i \in 1..MaxGrid |-> StartGrid(i)]

StartGrids == { StartGridTable[i] : i \in 1..MaxGrid }

-----------------------------------------------------------------------------
(***************************************************************************)
(* graph::Graph<uint16_t, uint16_t, Vector<State>, 2, true>: m_vertices    *)
(* and m_edges are maps keyed by ID, an adjacency list a map keyed by edge  *)
(* ID, so each is a function of the ID and is walked in ascending ID order  *)
(***************************************************************************)

UNVISITED  == 0
PROCESSING == 1
VISITED    == 2

Directed == TRUE

NullEdge == 0 - 1

\* Graph::Graph; directed is the template parameter of the graph
EmptyGraph(directed) ==
    [directed |-> directed, m_vertices |-> <<>>, m_edges |-> <<>>,
     m_vertexCount |-> 0, m_EdgeCount |-> 0]

NewVertex(id, data) ==
    [id |-> id, data |-> data, currentCost |-> 0, heuristicCost |-> 0,
     label |-> 0, predecessor |-> NullEdge, adjList |-> {}]

\* AddVertex numbering the vertices from 1
AddVertexFromOne(g, data) ==
    [g EXCEPT !.m_vertices = @ @@ (g.m_vertexCount :> NewVertex(g.m_vertexCount + 1, data)),
              !.m_vertexCount = @ + 1]

AddVertex(g, data) ==
    [g EXCEPT !.m_vertices = @ @@ (g.m_vertexCount :> NewVertex(g.m_vertexCount, data)),
              !.m_vertexCount = @ + 1]

\* AddEdge without the test that both vertices exist
AddEdgeUnchecked(g, vertexID, neighborID, edgeCost) ==
    [g EXCEPT
        !.m_vertices =
            [id \in DOMAIN @ |->
                IF id = vertexID \/ (~g.directed /\ id = neighborID)
                THEN [@[id] EXCEPT !.adjList = @ \cup {g.m_EdgeCount}]
                ELSE @[id]],
        !.m_edges = @ @@ (g.m_EdgeCount :>
                            [id |-> g.m_EdgeCount, first |-> vertexID,
                             second |-> neighborID, cost |-> edgeCost]),
        !.m_EdgeCount = @ + 1]

AddEdge(g, vertexID, neighborID, edgeCost) ==
    IF ~(vertexID \in DOMAIN g.m_vertices /\ neighborID \in DOMAIN g.m_vertices)
    THEN g
    ELSE [g EXCEPT
            !.m_vertices =
                [id \in DOMAIN @ |->
                    IF id = vertexID \/ (~g.directed /\ id = neighborID)
                    THEN [@[id] EXCEPT !.adjList = @ \cup {g.m_EdgeCount}]
                    ELSE @[id]],
            !.m_edges = @ @@ (g.m_EdgeCount :>
                                [id |-> g.m_EdgeCount, first |-> vertexID,
                                 second |-> neighborID, cost |-> edgeCost]),
            !.m_EdgeCount = @ + 1]

\* RemoveEdge taking the edge out of the adjacency list of its first end only
RemoveEdgeFromFirst(g, edgeID) == {g.m_edges[edgeID].first}

\* the vertices whose adjacency list RemoveEdge takes edgeID out of
RemoveEdgeFrom(g, edgeID) ==
    IF g.directed
    THEN IF edgeID \in g.m_vertices[g.m_edges[edgeID].first].adjList
         THEN {g.m_edges[edgeID].first}
         ELSE {g.m_edges[edgeID].second}
    ELSE {g.m_edges[edgeID].first, g.m_edges[edgeID].second}

RemoveEdge(g, edgeID) ==
    IF edgeID \notin DOMAIN g.m_edges THEN g
    ELSE [g EXCEPT
            !.m_vertices =
                [id \in DOMAIN @ |->
                    IF id \in RemoveEdgeFrom(g, edgeID)
                    THEN [@[id] EXCEPT !.adjList = @ \ {edgeID}]
                    ELSE @[id]],
            !.m_edges = [e \in (DOMAIN @) \ {edgeID} |-> @[e]]]

\* RemoveVertex erases every edge of the vertex, lowest id first.  Here and
\* below an intermediate object of the code (a graph after a call, a grid
\* rebuilt from a vertex) is bound once, as the only element of a set, and
\* the rest of the operation works on that value.
RECURSIVE RemoveEdges(_, _)
RemoveEdges(g, edgeIDs) ==
    IF edgeIDs = {} THEN g
    ELSE CHOOSE r \in
            { RemoveEdges(after, edgeIDs \ {e}) :
                e \in { x \in edgeIDs : \A o \in edgeIDs : x <= o },
                after \in { RemoveEdge(g, y) :
                              y \in { x \in edgeIDs : \A o \in edgeIDs : x <= o } } } : TRUE

\* RemoveVertex without its second loop
RemoveNoIncoming(g, vertexID) == g

\* RemoveVertex, second loop: the edges that arrive at vertexID
RemoveIncoming(g, vertexID) ==
    IF g.directed
    THEN RemoveEdges(g, { e \in DOMAIN g.m_edges : g.m_edges[e].second = vertexID })
    ELSE g

\* RemoveVertex without the final m_vertices.Remove
DropNoVertex(g, vertexID) == g

DropVertex(g, vertexID) ==
    [g EXCEPT !.m_vertices = [id \in (DOMAIN @) \ {vertexID} |-> @[id]]]

RemoveVertex(g, vertexID) ==
    IF vertexID \notin DOMAIN g.m_vertices THEN g
    ELSE CHOOSE r \in
            { DropVertex(g2, vertexID) :
                g2 \in { RemoveIncoming(g1, vertexID) :
                           g1 \in { RemoveEdges(g, g.m_vertices[vertexID].adjList) } } } : TRUE

\* Destroy without the reset of the ID counters
DestroyKeepingCounters(g) ==
    [EmptyGraph(g.directed) EXCEPT !.m_vertexCount = g.m_vertexCount,
                                   !.m_EdgeCount = g.m_EdgeCount]

\* Destroy without m_edges.Clear()
DestroyKeepingEdges(g) == [EmptyGraph(g.directed) EXCEPT !.m_edges = g.m_edges]

Destroy(g) == EmptyGraph(g.directed)

SetCurrentCost(g, id, cost)   == [g EXCEPT !.m_vertices[id].currentCost = cost]
SetHeuristicCost(g, id, cost) == [g EXCEPT !.m_vertices[id].heuristicCost = cost]
SetLabel(g, id, label)        == [g EXCEPT !.m_vertices[id].label = label]

\* graph::Relax(u, v, uv): whether the edge relaxes, and the graph after it
\* a Relax that never finds an improvement
RelaxTestNever(g, u, v, uv) == FALSE

RelaxTest(g, u, v, uv) ==
    g.m_vertices[v].currentCost >
        (g.m_vertices[u].currentCost - g.m_vertices[u].heuristicCost) + g.m_edges[uv].cost

Relax(g, u, v, uv) ==
    IF RelaxTest(g, u, v, uv)
    THEN [g EXCEPT !.m_vertices[v].currentCost =
                       (g.m_vertices[u].currentCost - g.m_vertices[u].heuristicCost)
                           + g.m_edges[uv].cost + g.m_vertices[v].heuristicCost,
                   !.m_vertices[v].predecessor = uv]
    ELSE g

-----------------------------------------------------------------------------
(***************************************************************************)
(* Frontiers: slkd::Queue, slkd::Stack and bheap::PriorityQueue of Vertex* *)
(* (a vertex pointer is the vertex ID)                                     *)
(***************************************************************************)

\* an Enqueue that links the new node in front of m_first
EnqueueAtFront(queue, element) == <<element>> \o queue

Enqueue(queue, element) == Append(queue, element)

Push(stack, element) == <<element>> \o stack

\* compare::Vertex and compare::VertexHeuristic
CompareVertex(g, v1, v2) ==
    g.m_vertices[v1].currentCost <= g.m_vertices[v2].currentCost

\* a comparator for GreedyBFS that reads the cost ExpandNode drew
CompareVertexByDraw(g, v1, v2) ==
    g.m_vertices[v1].currentCost <= g.m_vertices[v2].currentCost

CompareVertexHeuristic(g, v1, v2) ==
    g.m_vertices[v1].heuristicCost <= g.m_vertices[v2].heuristicCost

\* comparators::Less, the default Compare of BinaryHeap and PriorityQueue
Less(a, b) == a < b

Comparators == {"Vertex", "VertexHeuristic", "Less"}

\* m_comp(v1, v2) for the template argument Compare named by comp
Comp(g, comp, v1, v2) ==
    CASE comp = "Vertex"          -> CompareVertex(g, v1, v2)
      [] comp = "VertexHeuristic" -> CompareVertexHeuristic(g, v1, v2)
      [] comp = "Less"            -> Less(v1, v2)

Swap(heap, i, j) == [heap EXCEPT ![i + 1] = heap[j + 1], ![j + 1] = heap[i + 1]]

\* a Push that leaves the new element at the end of the heap
HeapifyUpNever(heap, index, g, comp) == heap

\* indices are the 0-based ones of the code; heap[index + 1] is m_heap[index]
RECURSIVE HeapifyUp(_, _, _, _)
HeapifyUp(heap, index, g, comp) ==
    IF index > 0 /\ Comp(g, comp, heap[index + 1], heap[((index - 1) \div 2) + 1])
    THEN HeapifyUp(Swap(heap, index, (index - 1) \div 2), (index - 1) \div 2, g, comp)
    ELSE heap

\* HeapifyDown's choice when only the left child is looked at
HeapLargestLeftOnly(heap, index, g, comp) ==
    IF 2 * index + 1 < Len(heap)
       /\ Comp(g, comp, heap[2 * index + 2], heap[index + 1])
    THEN 2 * index + 1 ELSE index

HeapLargest(heap, index, g, comp) ==
    LET left    == 2 * index + 1
        right   == 2 * index + 2
        largest == IF left < Len(heap)
                      /\ Comp(g, comp, heap[left + 1], heap[index + 1])
                   THEN left ELSE index
    IN  IF right < Len(heap) /\ Comp(g, comp, heap[right + 1], heap[largest + 1])
        THEN right ELSE largest

RECURSIVE HeapifyDown(_, _, _, _)
HeapifyDown(heap, index, g, comp) ==
    IF HeapLargest(heap, index, g, comp) # index
    THEN HeapifyDown(Swap(heap, index, HeapLargest(heap, index, g, comp)),
                     HeapLargest(heap, index, g, comp), g, comp)
    ELSE heap

HeapPush(heap, element, g, comp) ==
    HeapifyUp(Append(heap, element), Len(heap), g, comp)

\* a Pop that moves the last element to the root and leaves it there
HeapPopUnordered(heap, g, comp) == SubSeq(Swap(heap, 0, Len(heap) - 1), 1, Len(heap) - 1)

\* the heap after Pop; the element popped is Head(heap)
HeapPop(heap, g, comp) ==
    HeapifyDown(SubSeq(Swap(heap, 0, Len(heap) - 1), 1, Len(heap) - 1), 0, g, comp)

-----------------------------------------------------------------------------
(***************************************************************************)
(* sudoku::Solver (solver.cc).  A solver state s carries what a call of     *)
(* Solve changes: the members m_graph, m_vertexSolutionID, m_expandedStates *)
(* and the running algorithm's frontier, depth and return value.            *)
(***************************************************************************)

Algorithms == {"BFS", "IDDFS", "UCS", "A_STAR", "GBFS"}

\* GenRandomCost: uniform_int_distribution(1, GRID_SIZE + 1).  The draws
\* explored are the lowest MaxCost values and the highest one.
RandomCosts == { c \in 1..(GRID_SIZE + 1) : c <= MaxCost \/ c = GRID_SIZE + 1 }

\* a depth budget below the highest cost GenRandomCost can draw
ShallowMaxDepth == GRID_SIZE

\* IDDFS(std::size_t maxDepth = GRID_SIZE * GRID_SIZE)
DefaultMaxDepth == GRID_SIZE * GRID_SIZE

GetVertexState(startGrid, vertex) == ApplyChanges(CopyGrid(startGrid), vertex.data)

CalculateAStarHeuristic(startGrid, vertex) ==
    IF vertex.data # <<>>
    THEN CHOOSE possibleNumbers \in
            { Cardinality({ num \in Digits :
                              IsValid(currentGrid,
                                      vertex.data[Len(vertex.data)][1][1],
                                      vertex.data[Len(vertex.data)][1][2], num) }) :
                currentGrid \in { GetVertexState(startGrid, vertex) } } : TRUE
    ELSE GRID_SIZE

CalculateGreedyBFSHeuristic(startGrid, vertex) ==
    CHOOSE emptyCells \in
        { Cardinality({ cell \in Cells : currentGrid[cell] = 0 }) :
            currentGrid \in { GetVertexState(startGrid, vertex) } } : TRUE

CreateInitialState(g) == SetLabel(AddVertex(Destroy(g), <<>>), 0, UNVISITED)

\* a CheckSolution that recognises no vertex as a solution
CheckSolutionNever(startGrid, vertex) == FALSE

CheckSolution(startGrid, vertex) ==
    \E currentGrid \in { GetVertexState(startGrid, vertex) } : IsSolved(currentGrid)

\* one pass of ExpandNode's loop body for a valid num: the child gets the
\* changes pushed so far, a random cost, the label UNVISITED and an edge
AddChild(g, fatherID, changes, cost) ==
    CHOOSE r \in
        { AddEdge(child, fatherID, g.m_vertexCount, 0) :
            child \in { SetLabel(SetCurrentCost(AddVertex(g, changes),
                                                g.m_vertexCount, cost),
                                 g.m_vertexCount, UNVISITED) } } : TRUE

RECURSIVE ExpandFrom(_, _, _, _, _, _, _)
ExpandFrom(s, fatherID, grid, cell, changes, num, costs) ==
    IF num > GRID_SIZE
    THEN [s EXCEPT !.graph = SetLabel(@, fatherID, PROCESSING)]
    ELSE IF IsValid(grid, cell.row, cell.col, num)
    THEN CHOOSE r \in
            { ExpandFrom([s EXCEPT !.graph = AddChild(@, fatherID, pushed, Head(costs)),
                                   !.expandedStates = @ + 1],
                         fatherID, grid, cell, pushed, num + 1, Tail(costs)) :
                pushed \in { Append(changes, <<<<cell.row, cell.col>>, num>>) } } : TRUE
    ELSE ExpandFrom(s, fatherID, grid, cell, changes, num + 1, costs)

ExpandGrid(s, fatherID, grid, changes, costs) ==
    CHOOSE r \in
        { ExpandFrom(s, fatherID, grid, cell, changes, 1, costs) :
            cell \in { FindEmptyCell(grid) } } : TRUE

ExpandNode(s, startGrid, fatherID, costs) ==
    CHOOSE r \in
        { ExpandGrid(s, fatherID, currentGrid, s.graph.m_vertices[fatherID].data, costs) :
            currentGrid \in { GetVertexState(startGrid, s.graph.m_vertices[fatherID]) } } :
        TRUE

\* the number of children ExpandNode gives a vertex, which is the number of
\* calls of GenRandomCost it makes
ValidDigits(grid, cell) == { num \in Digits : IsValid(grid, cell.row, cell.col, num) }

NumChildren(startGrid, vertex) ==
    CHOOSE n \in
        { Cardinality(ValidDigits(currentGrid, cell)) :
            currentGrid \in { GetVertexState(startGrid, vertex) },
            cell \in { FindEmptyCell(GetVertexState(startGrid, vertex)) } } : TRUE

\* the far end of edge uv seen from u
Neighbor(g, u, uv) ==
    IF g.m_edges[uv].first = u THEN g.m_edges[uv].second ELSE g.m_edges[uv].first

\* BFS putting the expanded vertex back in the queue instead of the neighbour
VisitBFSFather(s, u, v, uv) ==
    IF s.graph.m_vertices[v].label = UNVISITED
    THEN [s EXCEPT !.frontier = Enqueue(@, u)]
    ELSE s

\* what each algorithm does with a neighbour v that is not a solution
VisitBFS(s, u, v, uv) ==
    IF s.graph.m_vertices[v].label = UNVISITED
    THEN [s EXCEPT !.frontier = Enqueue(@, v)]
    ELSE s

VisitIDDFS(s, u, v, uv) ==
    IF s.graph.m_vertices[v].label = UNVISITED
    THEN [s EXCEPT !.graph = SetLabel(@, v, s.graph.m_vertices[u].currentCost + 1),
                   !.frontier = Push(@, v)]
    ELSE s

\* an Enqueue after Relax that puts the vertex in the queue twice
PushRelaxedTwice(s, g, v, comp) ==
    CHOOSE r \in
        { [s EXCEPT !.graph = after,
                    !.frontier = HeapPush(HeapPush(@, v, after, comp),
                                          v, after, comp)] :
            after \in {g} } : TRUE

PushRelaxed(s, g, v, comp) ==
    CHOOSE r \in
        { [s EXCEPT !.graph = after, !.frontier = HeapPush(@, v, after, comp)] :
            after \in {g} } : TRUE

VisitUCS(s, u, v, uv) ==
    IF s.graph.m_vertices[v].label = UNVISITED /\ RelaxTest(s.graph, u, v, uv)
    THEN PushRelaxed(s, Relax(s.graph, u, v, uv), v, "Vertex")
    ELSE s

RelaxAStar(s, g, u, v, uv) ==
    IF RelaxTest(g, u, v, uv)
    THEN PushRelaxed(s, Relax(g, u, v, uv), v, "Vertex")
    ELSE [s EXCEPT !.graph = g]

\* AStar calling Relax before the heuristic of the child is set
VisitAStarRelaxFirst(s, startGrid, u, v, uv) ==
    IF s.graph.m_vertices[v].label = UNVISITED
    THEN CHOOSE r \in
            { [relaxed EXCEPT !.graph =
                   SetHeuristicCost(@, v,
                       CalculateAStarHeuristic(startGrid, s.graph.m_vertices[v]))] :
                relaxed \in { RelaxAStar(s, s.graph, u, v, uv) } } : TRUE
    ELSE s

VisitAStar(s, startGrid, u, v, uv) ==
    IF s.graph.m_vertices[v].label = UNVISITED
    THEN CHOOSE r \in
            { RelaxAStar(s, g, u, v, uv) :
                g \in { SetHeuristicCost(s.graph, v,
                           CalculateAStarHeuristic(startGrid, s.graph.m_vertices[v])) } } :
            TRUE
    ELSE s

VisitGreedyBFS(s, startGrid, u, v, uv) ==
    IF s.graph.m_vertices[v].label = UNVISITED
    THEN PushRelaxed(s,
                     SetHeuristicCost(s.graph, v,
                         CalculateGreedyBFSHeuristic(startGrid, s.graph.m_vertices[v])),
                     v, "VertexHeuristic")
    ELSE s

Visit(s, algorithm, startGrid, u, v, uv) ==
    CASE algorithm = "BFS"    -> VisitBFS(s, u, v, uv)
      [] algorithm = "IDDFS"  -> VisitIDDFS(s, u, v, uv)
      [] algorithm = "UCS"    -> VisitUCS(s, u, v, uv)
      [] algorithm = "A_STAR" -> VisitAStar(s, startGrid, u, v, uv)
      [] algorithm = "GBFS"   -> VisitGreedyBFS(s, startGrid, u, v, uv)

\* for (auto& pair : u->GetAdjacencyList()): the edges of u with ID >= from,
\* in ascending order.  GetVertex on a missing ID ends the process
\* (exit(EXIT_FAILURE)); a neighbour that is a solution ends the call.
RECURSIVE ForEachAdjacent(_, _, _, _, _)
ForEachAdjacent(s, algorithm, startGrid, u, from) ==
    IF \A uv \in s.graph.m_vertices[u].adjList : uv < from
    THEN s
    ELSE LET uv == CHOOSE e \in s.graph.m_vertices[u].adjList :
                       /\ e >= from
                       /\ \A o \in s.graph.m_vertices[u].adjList : o >= from => e <= o
             v  == Neighbor(s.graph, u, uv)
         IN  IF v \notin DOMAIN s.graph.m_vertices
             THEN [s EXCEPT !.solved = "fatal"]
             ELSE IF CheckSolution(startGrid, s.graph.m_vertices[v])
             THEN [s EXCEPT !.vertexSolutionID = v, !.solved = "true"]
             ELSE CHOOSE r \in
                     { ForEachAdjacent(visited, algorithm, startGrid, u, uv + 1) :
                         visited \in { Visit(s, algorithm, startGrid, u, v, uv) } } : TRUE

\* a loop body that ends without RemoveVertex
KeepExpanded(s, u) == s

\* the end of a loop body: u is removed unless the call has returned
RemoveExpanded(s, u) ==
    IF s.solved = "none"
    THEN [s EXCEPT !.graph = RemoveVertex(@, u)]
    ELSE s

\* the loop body after u was taken from the frontier
LoopBody(s, algorithm, startGrid, u, costs) ==
    CHOOSE r \in
        { RemoveExpanded(examined, u) :
            examined \in
                { ForEachAdjacent(expanded, algorithm, startGrid, u, 0) :
                    expanded \in { ExpandNode(s, startGrid, u, costs) } } } : TRUE

MarkVisited(s, u) == [s EXCEPT !.graph = SetLabel(@, u, VISITED)]

\* each algorithm up to its loop: CreateInitialState and the root vertex 0
\* put in the frontier
BeginBFS(s) ==
    [s EXCEPT !.graph = CreateInitialState(@), !.frontier = Enqueue(<<>>, 0)]

\* a depth iteration that starts over without moving to the next depth
BeginSameDepth(s, nextDepth) ==
    [s EXCEPT !.graph = SetLabel(SetCurrentCost(CreateInitialState(@), 0, 0), 0, VISITED),
              !.frontier = Push(<<>>, 0)]

BeginDepth(s, nextDepth) ==
    [s EXCEPT !.graph = SetLabel(SetCurrentCost(CreateInitialState(@), 0, 0), 0, VISITED),
              !.frontier = Push(<<>>, 0),
              !.depth = nextDepth]

BeginIDDFS(s, maxDepth) ==
    IF 1 <= maxDepth THEN BeginDepth(s, 1) ELSE [s EXCEPT !.solved = "false"]

BeginUCS(s) ==
    [s EXCEPT !.graph = CreateInitialState(@),
              !.frontier = HeapPush(<<>>, 0, CreateInitialState(s.graph), "Vertex")]

RootWithCosts(g, cost, heuristicCost) ==
    SetHeuristicCost(SetCurrentCost(g, 0, cost), 0, heuristicCost)

BeginWithRoot(s, g, comp) ==
    CHOOSE r \in
        { [s EXCEPT !.graph = root, !.frontier = HeapPush(<<>>, 0, root, comp)] :
            root \in {g} } : TRUE

AStarRoot(startGrid, g) ==
    CHOOSE r \in
        { RootWithCosts(g, heuristicCost, heuristicCost) :
            heuristicCost \in { CalculateAStarHeuristic(startGrid, g.m_vertices[0]) } } :
        TRUE

BeginAStar(s, startGrid) ==
    CHOOSE r \in
        { BeginWithRoot(s, AStarRoot(startGrid, g), "Vertex") :
            g \in { CreateInitialState(s.graph) } } : TRUE

GreedyBFSRoot(startGrid, g) ==
    SetHeuristicCost(g, 0, CalculateGreedyBFSHeuristic(startGrid, g.m_vertices[0]))

BeginGreedyBFS(s, startGrid) ==
    CHOOSE r \in
        { BeginWithRoot(s, GreedyBFSRoot(startGrid, g), "VertexHeuristic") :
            g \in { CreateInitialState(s.graph) } } : TRUE

Begin(s, algorithm, startGrid) ==
    CASE algorithm = "BFS"    -> BeginBFS(s)
      [] algorithm = "IDDFS"  -> BeginIDDFS(s, DefaultMaxDepth)
      [] algorithm = "UCS"    -> BeginUCS(s)
      [] algorithm = "A_STAR" -> BeginAStar(s, startGrid)
      [] algorithm = "GBFS"   -> BeginGreedyBFS(s, startGrid)

\* one test of the while condition and, when it holds, one loop body
LoopBFS(s, startGrid, costs) ==
    IF s.frontier = <<>> THEN [s EXCEPT !.solved = "false"]
    ELSE CHOOSE r \in
            { LoopBody(taken, "BFS", startGrid, Head(s.frontier), costs) :
                taken \in { [s EXCEPT !.frontier = Tail(@)] } } : TRUE

\* IDDFS: an empty stack ends the while and the for moves to the next depth
LoopIDDFS(s, startGrid, maxDepth, costs) ==
    IF s.frontier = <<>>
    THEN IF s.depth + 1 <= maxDepth
         THEN BeginDepth(s, s.depth + 1)
         ELSE [s EXCEPT !.solved = "false"]
    ELSE IF s.graph.m_vertices[Head(s.frontier)].currentCost > s.depth
    THEN [s EXCEPT !.frontier = Tail(@)]
    ELSE CHOOSE r \in
            { LoopBody(taken, "IDDFS", startGrid, Head(s.frontier), costs) :
                taken \in { [s EXCEPT !.frontier = Tail(@)] } } : TRUE

LoopHeap(s, algorithm, comp, startGrid, costs) ==
    IF s.frontier = <<>> THEN [s EXCEPT !.solved = "false"]
    ELSE CHOOSE r \in
            { LoopBody(taken, algorithm, startGrid, Head(s.frontier), costs) :
                taken \in { MarkVisited([s EXCEPT !.frontier =
                                                    HeapPop(@, s.graph, comp)],
                                        Head(s.frontier)) } } : TRUE

LoopUCS(s, startGrid, costs) == LoopHeap(s, "UCS", "Vertex", startGrid, costs)

LoopAStar(s, startGrid, costs) == LoopHeap(s, "A_STAR", "Vertex", startGrid, costs)

LoopGreedyBFS(s, startGrid, costs) == LoopHeap(s, "GBFS", "VertexHeuristic", startGrid, costs)

\* how many times the next loop pass calls GenRandomCost
Draws(s, algorithm, startGrid) ==
    IF s.frontier = <<>> THEN 0
    ELSE IF algorithm = "IDDFS"
            /\ s.graph.m_vertices[Head(s.frontier)].currentCost > s.depth
    THEN 0
    ELSE NumChildren(startGrid, s.graph.m_vertices[Head(s.frontier)])

\* m_graph.GetVertices().At(m_vertexSolutionID) in Solve: Map::At stores a
\* default Vertex under a missing key
VerticesAt(g, id) ==
    IF id \in DOMAIN g.m_vertices THEN g
    ELSE [g EXCEPT !.m_vertices = @ @@ (id :> NewVertex(0, <<>>))]

SolverState ==
    [graph |-> m_graph, frontier |-> frontier,
     vertexSolutionID |-> m_vertexSolutionID, expandedStates |-> m_expandedStates,
     solved |-> solved, depth |-> depth]

\* the members and locals after a step that left the solver in state s
Commit(s) ==
    /\ m_graph' = s.graph
    /\ frontier' = s.frontier
    /\ m_vertexSolutionID' = s.vertexSolutionID
    /\ m_expandedStates' = s.expandedStates
    /\ solved' = s.solved
    /\ depth' = s.depth
    /\ pc' = CASE s.solved = "none"  -> m_algorithm
               [] s.solved = "fatal" -> "exit"
               [] OTHER              -> "report"
    /\ UNCHANGED <<m_startGrid, m_algorithm>>

\* Solver::Solver(grid, algorithm)
Constructed(grid, algorithm) ==
    /\ m_startGrid = grid
    /\ m_algorithm = algorithm
    /\ m_vertexSolutionID = 0
    /\ m_expandedStates = 0
    /\ m_graph = EmptyGraph(Directed)
    /\ frontier = <<>>
    /\ depth = 0
    /\ solved = "none"
    /\ pc = "Solve"

-----------------------------------------------------------------------------
(***************************************************************************)
(* SpecHeap: a client calling the public operations of one                 *)
(* bheap::PriorityQueue<Vertex*, Compare>, as the solver instantiates it   *)
(* (solver.cc 305, 365, 436): the elements are pointers to vertices owned  *)
(* by a graph, compared by compare::Vertex or compare::VertexHeuristic; or *)
(* of one bheap::PriorityQueue<typeT> with the default comparators::Less,  *)
(* whose elements are compared as the numbers they are.                    *)
(* PriorityQueue derives publicly from BinaryHeap, so Push and Pop of the  *)
(* heap are callable on the queue next to Enqueue, Peek and Dequeue.       *)
(***************************************************************************)

\* no value returned
NoRes == 0 - 1

MaxElement == 3
MaxHeap == 4

Elements == 0..MaxElement

\* the vertices the elements point to; costs repeat, so that elements tie
ElementGraph ==
    [EmptyGraph(Directed) EXCEPT
        !.m_vertices = [id \in Elements |->
                          [NewVertex(id, <<>>) EXCEPT
                              !.currentCost = id \div 2,
                              !.heuristicCost = (2 * id) % 3]],
        !.m_vertexCount = MaxElement + 1]

HeapRet(op, element, threw) == [op |-> op, element |-> element, threw |-> threw]

\* how often each element occurs in a sequence
BagOf(seq) == [x \in Elements |-> Cardinality({ i \in DOMAIN seq : seq[i] = x })]

HeapConstructed(comp) ==
    /\ m_heap = <<>>
    /\ m_comp = comp
    /\ heapRet = HeapRet("none", NoRes, "none")
    /\ heapPushed = BagOf(<<>>)
    /\ drained = <<>>

\* BinaryHeap::Push, also what PriorityQueue::Enqueue calls
PushElement(op, element) ==
    /\ Len(m_heap) < MaxHeap
    /\ m_heap' = HeapPush(m_heap, element, ElementGraph, m_comp)
    /\ heapRet' = HeapRet(op, element, "none")
    /\ heapPushed' = [x \in Elements |->
                    heapPushed[x] - BagOf(drained)[x] + (IF x = element THEN 1 ELSE 0)]
    /\ drained' = <<>>
    /\ UNCHANGED m_comp

BinaryHeapPush(element) == PushElement("Push", element)

PriorityQueueEnqueue(element) == PushElement("Enqueue", element)

\* BinaryHeap::Pop on a heap that holds an element
PopElement(op) ==
    /\ m_heap' = HeapPop(m_heap, ElementGraph, m_comp)
    /\ heapRet' = HeapRet(op, m_heap[1], "none")
    /\ drained' = Append(drained, m_heap[1])
    /\ UNCHANGED <<m_comp, heapPushed>>

\* an operation that ends in an exception
HeapThrows(op, what) ==
    /\ heapRet' = HeapRet(op, NoRes, what)
    /\ UNCHANGED <<m_heap, m_comp, heapPushed, drained>>

\* BinaryHeap::Pop has no test for emptiness: on an empty heap it reads
\* m_heap[0], then Swap(0, Size() - 1) is handed the largest std::size_t,
\* which is above m_capacity, and Vector::Swap throws std::out_of_range
BinaryHeapPop ==
    IF m_heap = <<>> THEN HeapThrows("Pop", "out_of_range") ELSE PopElement("Pop")

PriorityQueueDequeue ==
    IF m_heap = <<>>
    THEN HeapThrows("Dequeue", "underflow_error: Queue is empty!")
    ELSE PopElement("Dequeue")

PriorityQueuePeek ==
    IF m_heap = <<>>
    THEN HeapThrows("Peek", "overflow_error: Queue is empty!")
    ELSE /\ heapRet' = HeapRet("Peek", m_heap[1], "none")
         /\ UNCHANGED <<m_heap, m_comp, heapPushed, drained>>

\* BinaryHeap::Clear
HeapClear ==
    /\ m_heap' = <<>>
    /\ heapRet' = HeapRet("Clear", NoRes, "none")
    /\ heapPushed' = BagOf(<<>>)
    /\ drained' = <<>>
    /\ UNCHANGED m_comp

-----------------------------------------------------------------------------
(***************************************************************************)
(* SpecGraph: a client calling the public operations of one graph::Graph,  *)
(* directed or undirected.  An Edge object is named by the number of       *)
(* Destroy calls before its creation and by its ID.                        *)
(***************************************************************************)

MaxVertex == 3
MaxEdge == 2
MaxEpoch == 2

VertexIDs == 0..(MaxVertex - 1)
EdgeIDs == 0..(MaxEdge - 1)
EdgeObjects == (0..MaxEpoch) \X EdgeIDs

GraphRet(op, arg, res) == [op |-> op, arg |-> arg, res |-> res]

\* the calls made since the last Destroy, and the Destroy calls made since
\* the last call of another operation
NoCalls ==
    [addVertex |-> 0, removeVertex |-> 0, addEdge |-> 0, removedEdges |-> 0,
     removedIDs |-> {}, destroys |-> 0]

GraphConstructed(directed) ==
    /\ graph = EmptyGraph(directed)
    /\ graphRet = GraphRet("none", <<>>, FALSE)
    /\ graphCalls = NoCalls
    /\ released = [object \in EdgeObjects |-> 0]
    /\ epoch = 0

GetNumVertices(g) == Cardinality(DOMAIN g.m_vertices)

GetNumEdges(g) == Cardinality(DOMAIN g.m_edges)

\* what the calls return
AddVertexReturn(g) == g.m_vertices[g.m_vertexCount - 1].id

AddEdgeReturn(g, vertexID, neighborID) ==
    vertexID \in DOMAIN g.m_vertices /\ neighborID \in DOMAIN g.m_vertices

RemoveVertexReturn(g, vertexID) == vertexID \in DOMAIN g.m_vertices

RemoveEdgeReturn(g, edgeID) == edgeID \in DOMAIN g.m_edges

\* the `delete edge` statements a call executes: how often each ID is deleted
RemoveEdgeDeletes(g, edgeID) ==
    [e \in EdgeIDs |-> IF e = edgeID /\ RemoveEdgeReturn(g, edgeID) THEN 1 ELSE 0]

RemoveVertexDeletes(g, vertexID) ==
    IF ~RemoveVertexReturn(g, vertexID) THEN [e \in EdgeIDs |-> 0]
    ELSE CHOOSE deletes \in
            { [e \in EdgeIDs |->
                 (IF e \in g.m_vertices[vertexID].adjList /\ e \in DOMAIN g.m_edges
                  THEN 1 ELSE 0)
                 + (IF g.directed /\ e \in DOMAIN g1.m_edges
                       /\ g1.m_edges[e].second = vertexID
                    THEN 1 ELSE 0)] :
                g1 \in { RemoveEdges(g, g.m_vertices[vertexID].adjList) } } : TRUE

DestroyDeletes(g) == [e \in EdgeIDs |-> IF e \in DOMAIN g.m_edges THEN 1 ELSE 0]

\* the reference count of deletions after a call that deleted `deletes`
Release(deletes) ==
    [object \in EdgeObjects |->
        released[object] + (IF object[1] = epoch THEN deletes[object[2]] ELSE 0)]

\* the edges of the edge table with vertexID at an end
IncidentEdges(g, vertexID) ==
    { e \in DOMAIN g.m_edges :
        g.m_edges[e].first = vertexID \/ g.m_edges[e].second = vertexID }

GraphAddVertex ==
    /\ graph.m_vertexCount < MaxVertex
    /\ \E after \in { AddVertex(graph, <<>>) } :
          /\ graph' = after
          /\ graphRet' = GraphRet("AddVertex", <<>>, AddVertexReturn(after))
    /\ graphCalls' = [graphCalls EXCEPT !.addVertex = @ + 1, !.destroys = 0]
    /\ UNCHANGED <<released, epoch>>

\* AddEdge(vertexID, neighborID), which is AddEdge(vertexID, neighborID, 0)
GraphAddEdge(vertexID, neighborID) ==
    /\ graph.m_EdgeCount < MaxEdge
    /\ graph' = AddEdge(graph, vertexID, neighborID, 0)
    /\ graphRet' = GraphRet("AddEdge", <<vertexID, neighborID>>,
                            AddEdgeReturn(graph, vertexID, neighborID))
    /\ graphCalls' = [graphCalls EXCEPT
                        !.addEdge = IF AddEdgeReturn(graph, vertexID, neighborID)
                                    THEN @ + 1 ELSE @,
                        !.destroys = 0]
    /\ UNCHANGED <<released, epoch>>

GraphRemoveEdge(edgeID) ==
    /\ graph' = RemoveEdge(graph, edgeID)
    /\ graphRet' = GraphRet("RemoveEdge", <<edgeID>>, RemoveEdgeReturn(graph, edgeID))
    /\ graphCalls' = [graphCalls EXCEPT
                        !.removedEdges = IF RemoveEdgeReturn(graph, edgeID)
                                         THEN @ + 1 ELSE @,
                        !.destroys = 0]
    /\ released' = Release(RemoveEdgeDeletes(graph, edgeID))
    /\ UNCHANGED epoch

GraphRemoveVertex(vertexID) ==
    /\ graph' = RemoveVertex(graph, vertexID)
    /\ graphRet' = GraphRet("RemoveVertex", <<vertexID>>,
                            RemoveVertexReturn(graph, vertexID))
    /\ graphCalls' =
          IF RemoveVertexReturn(graph, vertexID)
          THEN [graphCalls EXCEPT
                  !.removeVertex = @ + 1,
                  !.removedEdges = @ + Cardinality(IncidentEdges(graph, vertexID)),
                  !.removedIDs = @ \cup {vertexID},
                  !.destroys = 0]
          ELSE [graphCalls EXCEPT !.destroys = 0]
    /\ released' = Release(RemoveVertexDeletes(graph, vertexID))
    /\ UNCHANGED epoch

GraphDestroy ==
    /\ epoch < MaxEpoch
    /\ graph' = Destroy(graph)
    /\ graphRet' = GraphRet("Destroy", <<>>, TRUE)
    /\ graphCalls' = [NoCalls EXCEPT !.destroys = graphCalls.destroys + 1]
    /\ released' = Release(DestroyDeletes(graph))
    /\ epoch' = epoch + 1

-----------------------------------------------------------------------------
(***************************************************************************)
(* SpecRelax: a client of graph::Relax on the edge 0 of a graph of two     *)
(* vertices, setting the costs of the vertices between the calls, as       *)
(* Solver::UCS and Solver::AStar do.  Costs are uint16_t and small, so no  *)
(* sum leaves the type.                                                    *)
(***************************************************************************)

MaxEdgeCost == 1
MaxVertexCost == 2

EdgeCosts == 0..MaxEdgeCost
VertexCosts == 0..MaxVertexCost

\* two vertices and the edge 0 from vertex 0 to vertex 1
OneEdgeGraph(directed, edgeCost) ==
    AddEdge(AddVertex(AddVertex(EmptyGraph(directed), <<>>), <<>>), 0, 1, edgeCost)

RelaxConstructed(directed, edgeCost) ==
    /\ graph = OneEdgeGraph(directed, edgeCost)
    /\ graphRet = GraphRet("none", <<>>, FALSE)
    /\ graphCalls = NoCalls
    /\ released = [object \in EdgeObjects |-> 0]
    /\ epoch = 0

GraphSetCurrentCost(vertexID, cost) ==
    /\ graph' = SetCurrentCost(graph, vertexID, cost)
    /\ graphRet' = GraphRet("SetCurrentCost", <<vertexID, cost>>, TRUE)
    /\ UNCHANGED <<graphCalls, released, epoch>>

GraphSetHeuristicCost(vertexID, cost) ==
    /\ graph' = SetHeuristicCost(graph, vertexID, cost)
    /\ graphRet' = GraphRet("SetHeuristicCost", <<vertexID, cost>>, TRUE)
    /\ UNCHANGED <<graphCalls, released, epoch>>

\* Relax(u, v, uv) with u the first and v the second end of uv; the cost of
\* u holds its heuristic, as the cost of every vertex the algorithms expand
GraphRelax(uv) ==
    /\ graph.m_vertices[graph.m_edges[uv].first].currentCost
          >= graph.m_vertices[graph.m_edges[uv].first].heuristicCost
    /\ graph' = Relax(graph, graph.m_edges[uv].first, graph.m_edges[uv].second, uv)
    /\ graphRet' = GraphRet("Relax", <<uv>>,
                            RelaxTest(graph, graph.m_edges[uv].first,
                                      graph.m_edges[uv].second, uv))
    /\ UNCHANGED <<graphCalls, released, epoch>>

-----------------------------------------------------------------------------
(***************************************************************************)
(* SpecMap: a client calling the public operations of one Map              *)
(***************************************************************************)

Ret(op, key, val, res, threw) ==
    [op |-> op, key |-> key, val |-> val, res |-> res, threw |-> threw]

MapConstructed ==
    /\ m_tree = EmptyTree
    /\ m_map = EmptyTree
    /\ m_ret = Ret("none", NIL, DefaultValue, NoRes, FALSE)
    /\ refKeys = {}
    /\ refLast = [k \in Keys |-> DefaultValue]

InitMap ==
    /\ MapConstructed
    /\ Constructed(BaseGrid, "BFS")
    /\ HeapConstructed("Vertex")
    /\ GraphConstructed(Directed)

\* map.Insert(k, v), r what the call returned
InsertReturn(r, k, v) ==
    /\ m_map' = r.t
    /\ m_ret' = Ret("Insert", k, v, r.node, FALSE)
    /\ refKeys' = refKeys \cup {k}
    /\ refLast' = IF k \in refKeys THEN refLast ELSE [refLast EXCEPT ![k] = v]

Insert(k, v) == InsertReturn(MapInsert(m_map, k, v), k, v)

\* map.At(k) / map[k], read
AtReturn(r, k) ==
    /\ m_map' = r.t
    /\ m_ret' = Ret("At", k, DefaultValue, r.t.nodes[r.node].val, FALSE)
    /\ refKeys' = refKeys \cup {k}
    /\ refLast' = IF k \in refKeys THEN refLast
                  ELSE [refLast EXCEPT ![k] = DefaultValue]

At(k) == AtReturn(MapAt(m_map, k), k)

\* map.At(k) = v / map[k] = v
AssignAtReturn(r, k, v) ==
    /\ m_map' = SetSecond(r.t, r.node, v)
    /\ m_ret' = Ret("AssignAt", k, v, v, FALSE)
    /\ refKeys' = refKeys \cup {k}
    /\ refLast' = [refLast EXCEPT ![k] = v]

AssignAt(k, v) == AssignAtReturn(MapAt(m_map, k), k, v)

\* map.Get(k), read; throws std::out_of_range when k is absent
GetReturn(r, k) ==
    /\ m_map' = r.t
    /\ m_ret' = IF r.threw THEN Ret("Get", k, DefaultValue, NoRes, TRUE)
                ELSE Ret("Get", k, DefaultValue, r.t.nodes[r.node].val, FALSE)
    /\ UNCHANGED <<refKeys, refLast>>

Get(k) == GetReturn(MapGet(m_map, k), k)

\* map.Get(k) = v; throws before the assignment when k is absent
AssignGetReturn(r, k, v) ==
    /\ m_map' = IF r.threw THEN r.t ELSE SetSecond(r.t, r.node, v)
    /\ m_ret' = IF r.threw THEN Ret("AssignGet", k, v, NoRes, TRUE)
                ELSE Ret("AssignGet", k, v, v, FALSE)
    /\ refKeys' = refKeys
    /\ refLast' = IF k \in refKeys THEN [refLast EXCEPT ![k] = v] ELSE refLast

AssignGet(k, v) == AssignGetReturn(MapGet(m_map, k), k, v)

\* map.Remove(k)
Remove(k) ==
    /\ m_map' = MapRemove(m_map, k)
    /\ m_ret' = Ret("Remove", k, DefaultValue, NoRes, FALSE)
    /\ refKeys' = refKeys \ {k}
    /\ refLast' = [refLast EXCEPT ![k] = DefaultValue]

\* map.Clear()
Clear ==
    /\ m_map' = MapClear(m_map)
    /\ m_ret' = Ret("Clear", NIL, DefaultValue, NoRes, FALSE)
    /\ refKeys' = {}
    /\ refLast' = [k \in Keys |-> DefaultValue]

NextMap ==
    \/ \E k \in Keys, v \in Values : Insert(k, v) /\ UNCHANGED <<treeVars, solverVars, heapVars, graphVars>>
    \/ \E k \in Keys : At(k) /\ UNCHANGED <<treeVars, solverVars, heapVars, graphVars>>
    \/ \E k \in Keys, v \in Values : AssignAt(k, v) /\ UNCHANGED <<treeVars, solverVars, heapVars, graphVars>>
    \/ \E k \in Keys : Get(k) /\ UNCHANGED <<treeVars, solverVars, heapVars, graphVars>>
    \/ \E k \in Keys, v \in Values : AssignGet(k, v) /\ UNCHANGED <<treeVars, solverVars, heapVars, graphVars>>
    \/ \E k \in Keys : Remove(k) /\ UNCHANGED <<treeVars, solverVars, heapVars, graphVars>>
    \/ Clear /\ UNCHANGED <<treeVars, solverVars, heapVars, graphVars>>

SpecMap == InitMap /\ [][NextMap]_vars

-----------------------------------------------------------------------------
(***************************************************************************)
(* SpecTree: a client calling Insert / Remove / Clear on one               *)
(* RedBlackTree<typeT>; the stored value is the key itself                 *)
(***************************************************************************)

InitTree == InitMap

\* tree.Insert(k)
RBInsert(k) ==
    /\ m_tree' = TreeInsert(m_tree, k, DefaultValue).t
    /\ UNCHANGED mapVars

\* tree.Remove(k)
RBRemove(k) ==
    /\ m_tree' = TreeRemove(m_tree, k)
    /\ UNCHANGED mapVars

\* tree.Clear()
RBClear ==
    /\ m_tree' = TreeClear(m_tree)
    /\ UNCHANGED mapVars

NextTree ==
    \/ \E k \in TreeKeys : RBInsert(k) /\ UNCHANGED <<solverVars, heapVars, graphVars>>
    \/ \E k \in TreeKeys : RBRemove(k) /\ UNCHANGED <<solverVars, heapVars, graphVars>>
    \/ RBClear /\ UNCHANGED <<solverVars, heapVars, graphVars>>

SpecTree == InitTree /\ [][NextTree]_vars

-----------------------------------------------------------------------------
(***************************************************************************)
(* SpecSolver: one Solver, constructed on a start grid with an algorithm,  *)
(* and one call of Solve                                                   *)
(***************************************************************************)

\* Solver::Solve up to the call of the algorithm's loop
Solve ==
    /\ pc = "Solve"
    /\ IF ~GridIsValid(m_startGrid) \/ IsSolved(m_startGrid)
       THEN /\ pc' = "done"
            /\ UNCHANGED <<m_startGrid, m_algorithm, m_graph, frontier,
                           m_vertexSolutionID, m_expandedStates, solved, depth>>
       ELSE \E after \in { Begin(SolverState, m_algorithm, m_startGrid) } : Commit(after)

BFS ==
    /\ pc = "BFS"
    /\ \E s \in {SolverState} :
          \E costs \in [1..Draws(s, "BFS", m_startGrid) -> RandomCosts] :
             \E after \in { LoopBFS(s, m_startGrid, costs) } : Commit(after)

IDDFS ==
    /\ pc = "IDDFS"
    /\ \E s \in {SolverState} :
          \E costs \in [1..Draws(s, "IDDFS", m_startGrid) -> RandomCosts] :
             \E after \in { LoopIDDFS(s, m_startGrid, DefaultMaxDepth, costs) } : Commit(after)

UCS ==
    /\ pc = "UCS"
    /\ \E s \in {SolverState} :
          \E costs \in [1..Draws(s, "UCS", m_startGrid) -> RandomCosts] :
             \E after \in { LoopUCS(s, m_startGrid, costs) } : Commit(after)

AStar ==
    /\ pc = "A_STAR"
    /\ \E s \in {SolverState} :
          \E costs \in [1..Draws(s, "A_STAR", m_startGrid) -> RandomCosts] :
             \E after \in { LoopAStar(s, m_startGrid, costs) } : Commit(after)

GreedyBFS ==
    /\ pc = "GBFS"
    /\ \E s \in {SolverState} :
          \E costs \in [1..Draws(s, "GBFS", m_startGrid) -> RandomCosts] :
             \E after \in { LoopGreedyBFS(s, m_startGrid, costs) } : Commit(after)

\* Solver::Solve after the algorithm returned
Report ==
    /\ pc = "report"
    /\ m_graph' = IF solved = "true" THEN VerticesAt(m_graph, m_vertexSolutionID)
                  ELSE m_graph
    /\ pc' = "done"
    /\ UNCHANGED <<m_startGrid, m_algorithm, frontier, m_vertexSolutionID,
                   m_expandedStates, solved, depth>>

InitSolver ==
    /\ \E grid \in StartGrids, algorithm \in Algorithms : Constructed(grid, algorithm)
    /\ MapConstructed
    /\ HeapConstructed("Vertex")
    /\ GraphConstructed(Directed)

NextSolver ==
    \/ Solve /\ UNCHANGED <<treeVars, mapVars, heapVars, graphVars>>
    \/ BFS /\ UNCHANGED <<treeVars, mapVars, heapVars, graphVars>>
    \/ IDDFS /\ UNCHANGED <<treeVars, mapVars, heapVars, graphVars>>
    \/ UCS /\ UNCHANGED <<treeVars, mapVars, heapVars, graphVars>>
    \/ AStar /\ UNCHANGED <<treeVars, mapVars, heapVars, graphVars>>
    \/ GreedyBFS /\ UNCHANGED <<treeVars, mapVars, heapVars, graphVars>>
    \/ Report /\ UNCHANGED <<treeVars, mapVars, heapVars, graphVars>>

SpecSolver == InitSolver /\ [][NextSolver]_vars

\* every call made is carried through: a loop pass that can run does run
SpecSolverFair == SpecSolver /\ WF_vars(NextSolver)

-----------------------------------------------------------------------------
(***************************************************************************)
(* SpecHeap and SpecGraph                                                  *)
(***************************************************************************)

InitHeap ==
    /\ \E comp \in Comparators : HeapConstructed(comp)
    /\ MapConstructed
    /\ Constructed(BaseGrid, "BFS")
    /\ GraphConstructed(Directed)

NextHeap ==
    \/ \E element \in Elements :
          BinaryHeapPush(element) /\ UNCHANGED <<treeVars, mapVars, solverVars, graphVars>>
    \/ \E element \in Elements :
          PriorityQueueEnqueue(element)
              /\ UNCHANGED <<treeVars, mapVars, solverVars, graphVars>>
    \/ BinaryHeapPop /\ UNCHANGED <<treeVars, mapVars, solverVars, graphVars>>
    \/ PriorityQueueDequeue /\ UNCHANGED <<treeVars, mapVars, solverVars, graphVars>>
    \/ PriorityQueuePeek /\ UNCHANGED <<treeVars, mapVars, solverVars, graphVars>>
    \/ HeapClear /\ UNCHANGED <<treeVars, mapVars, solverVars, graphVars>>

SpecHeap == InitHeap /\ [][NextHeap]_vars

InitGraph ==
    /\ \E directed \in BOOLEAN : GraphConstructed(directed)
    /\ MapConstructed
    /\ Constructed(BaseGrid, "BFS")
    /\ HeapConstructed("Vertex")

NextGraph ==
    \/ GraphAddVertex /\ UNCHANGED <<treeVars, mapVars, solverVars, heapVars>>
    \/ \E vertexID \in 0..MaxVertex, neighborID \in 0..MaxVertex :
          GraphAddEdge(vertexID, neighborID)
              /\ UNCHANGED <<treeVars, mapVars, solverVars, heapVars>>
    \/ \E edgeID \in 0..MaxEdge :
          GraphRemoveEdge(edgeID) /\ UNCHANGED <<treeVars, mapVars, solverVars, heapVars>>
    \/ \E vertexID \in 0..MaxVertex :
          GraphRemoveVertex(vertexID)
              /\ UNCHANGED <<treeVars, mapVars, solverVars, heapVars>>
    \/ GraphDestroy /\ UNCHANGED <<treeVars, mapVars, solverVars, heapVars>>

SpecGraph == InitGraph /\ [][NextGraph]_vars

InitRelax ==
    /\ \E directed \in BOOLEAN, edgeCost \in EdgeCosts : RelaxConstructed(directed, edgeCost)
    /\ MapConstructed
    /\ Constructed(BaseGrid, "BFS")
    /\ HeapConstructed("Vertex")

NextRelax ==
    \/ \E vertexID \in DOMAIN graph.m_vertices, cost \in VertexCosts :
          GraphSetCurrentCost(vertexID, cost)
              /\ UNCHANGED <<treeVars, mapVars, solverVars, heapVars>>
    \/ \E vertexID \in DOMAIN graph.m_vertices, cost \in VertexCosts :
          GraphSetHeuristicCost(vertexID, cost)
              /\ UNCHANGED <<treeVars, mapVars, solverVars, heapVars>>
    \/ \E uv \in DOMAIN graph.m_edges :
          GraphRelax(uv) /\ UNCHANGED <<treeVars, mapVars, solverVars, heapVars>>

SpecRelax == InitRelax /\ [][NextRelax]_vars

-----------------------------------------------------------------------------
(***************************************************************************)
(* Red-black properties                                                    *)
(***************************************************************************)

IsBlack(t, n) == n = NIL \/ t.nodes[n].color = BLACK

RootIsBlack(t) == IsBlack(t, t.root)

NoRedRed(t) ==
    \A n \in DOMAIN t.nodes :
        t.nodes[n].color = RED =>
            IsBlack(t, t.nodes[n].left) /\ IsBlack(t, t.nodes[n].right)

\* the BLACK-node counts of all paths from node down to a null leaf
RECURSIVE PathBlackCounts(_, _)
PathBlackCounts(t, node) ==
    IF node = NIL THEN {1}
    ELSE { c + (IF t.nodes[node].color = BLACK THEN 1 ELSE 0) :
             c \in PathBlackCounts(t, t.nodes[node].left)
                     \cup PathBlackCounts(t, t.nodes[node].right) }

EqualBlackCount(t) == Cardinality(PathBlackCounts(t, t.root)) = 1

RedBlack(t) == RootIsBlack(t) /\ NoRedRed(t) /\ EqualBlackCount(t)

\* C5: after any sequence of Insert and Remove the tree has a BLACK root, no
\* RED node with a RED child, and the same number of BLACK nodes on every
\* path from the root to a null leaf.
C5_RedBlackAfterInsertRemove == RedBlack(m_tree)


-----------------------------------------------------------------------------
(***************************************************************************)
(* Map against its reference                                               *)
(***************************************************************************)

KeysOf(t) == { k \in Keys : MapContains(t, k) }

ValueOf(t, k) == t.nodes[MapGet(t, k).node].val

RECURSIVE Ascending(_)
Ascending(S) ==
    IF S = {} THEN <<>>
    ELSE LET m == CHOOSE x \in S : \A y \in S : x <= y
         IN  <<m>> \o Ascending(S \ {m})

\* C6: Contains(k) is true exactly for the keys inserted (by Insert, At or
\* operator[]) and not removed or cleared since, and Size() is the number of
\* such keys; so Remove(k) makes Contains(k) false and touches no other key.
C6_MapIsReferenceSet ==
    /\ \A k \in Keys : MapContains(m_map, k) <=> k \in refKeys
    /\ MapSize(m_map) = Cardinality(refKeys)

C6_Witness ==
    /\ m_ret.op = "Remove"
    /\ m_ret.key \notin refKeys
    /\ ~MapContains(m_map, m_ret.key)
    /\ Cardinality(refKeys) >= 2
    /\ MapSize(m_map) = Cardinality(refKeys)

\* C7 (as claimed): Get(key) returns the last value set for key, a value
\* being set by every Insert(key, value) and by every assignment through a
\* reference from Get / At / operator[]: right after such a call Get(key)
\* returns that value.
C7_GetReturnsLastValueHandedIn ==
    (/\ m_ret.op \in {"Insert", "AssignAt", "AssignGet"}
     /\ ~m_ret.threw)
        => ValueOf(m_map, m_ret.key) = m_ret.val

\* C7 (amended): for every key present, Get(key) returns the last value set
\* for it, a value being set by Insert(key, value) only when key was absent
\* (Insert on a present key stores nothing), by the default of At /
\* operator[] on an absent key, and by every assignment through a reference
\* from Get / At / operator[].
C7_GetReturnsLastValueStored ==
    \A k \in Keys :
        MapContains(m_map, k) =>
            /\ ~MapGet(m_map, k).threw
            /\ ValueOf(m_map, k) = refLast[k]

C7_Witness ==
    /\ m_ret.op = "Insert"
    /\ MapContains(m_map, m_ret.key)
    /\ ValueOf(m_map, m_ret.key) # m_ret.val
    /\ ValueOf(m_map, m_ret.key) = refLast[m_ret.key]

\* C8: a Get(key) on an absent key throws (NotFound) and inserts nothing:
\* the tree, hence the key set, Size() and every stored value, is the same
\* after the failed call as before it.
C8_GetAbsentThrowsAndKeepsMap ==
    [][ (m_ret'.op = "Get" /\ ~MapContains(m_map, m_ret'.key))
            => /\ m_ret'.threw
               /\ m_map' = m_map
               /\ KeysOf(m_map') = KeysOf(m_map)
               /\ MapSize(m_map') = MapSize(m_map) ]_vars

C8_Witness ==
    /\ m_ret.op = "Get"
    /\ m_ret.threw
    /\ ~MapContains(m_map, m_ret.key)
    /\ MapSize(m_map) >= 1

\* C9: Insert(key, value) on a present key returns the entry that was there
\* and changes neither Size() nor any stored value; on an absent key it
\* creates exactly one entry, holding value, and Size() grows by one.
C9_InsertIsLookupOrInsert ==
    [][ m_ret'.op = "Insert" =>
          LET k == m_ret'.key IN
          IF MapContains(m_map, k)
          THEN /\ m_ret'.res = Search(m_map, k)
               /\ MapSize(m_map') = MapSize(m_map)
               /\ KeysOf(m_map') = KeysOf(m_map)
               /\ \A j \in KeysOf(m_map) : ValueOf(m_map', j) = ValueOf(m_map, j)
          ELSE /\ MapSize(m_map') = MapSize(m_map) + 1
               /\ KeysOf(m_map') = KeysOf(m_map) \cup {k}
               /\ Cardinality(DOMAIN m_map'.nodes) = Cardinality(DOMAIN m_map.nodes) + 1
               /\ m_ret'.res = Search(m_map', k)
               /\ ValueOf(m_map', k) = m_ret'.val
               /\ \A j \in KeysOf(m_map) : ValueOf(m_map', j) = ValueOf(m_map, j) ]_vars

C9_Witness ==
    /\ m_ret.op = "Insert"
    /\ MapSize(m_map) >= 2
    /\ ValueOf(m_map, m_ret.key) # m_ret.val

\* C10: iterating from begin() to end() visits every key currently in the
\* map exactly once, in strictly ascending order, and then stops.
C10_IterationAscending == MapIterate(m_map) = Ascending(refKeys)

C10_Witness ==
    /\ m_ret.op = "Remove"
    /\ Cardinality(refKeys) >= 2
    /\ Len(MapIterate(m_map)) = Cardinality(refKeys)
    /\ MapIterate(m_map)[1] < MapIterate(m_map)[2]

-----------------------------------------------------------------------------
(***************************************************************************)
(* Solver properties                                                       *)
(***************************************************************************)

EmptyCells(grid) == { cell \in Cells : grid[cell] = 0 }

\* no digit twice in a row, a column or a box
NoRepeatedDigit(grid) ==
    \A unit \in Units :
        \A a \in unit, b \in unit : (a # b /\ grid[a] # 0) => grid[a] # grid[b]

\* the grid has a legal completion: its empty cells can be filled, first
\* empty cell first, without ever repeating a digit
RECURSIVE HasCompletion(_)
HasCompletion(grid) ==
    IF EmptyCells(grid) = {} THEN NoRepeatedDigit(grid)
    ELSE \E num \in Digits :
            /\ NoRepeatedDigit(
                  Put(grid, <<FindEmptyCell(grid).row, FindEmptyCell(grid).col>>, num))
            /\ HasCompletion(
                  Put(grid, <<FindEmptyCell(grid).row, FindEmptyCell(grid).col>>, num))

\* the start grids on which Solve runs an algorithm (valid, with an empty
\* cell), split by whether a legal completion exists
SolvableStarts ==
    { i \in 1..MaxGrid :
        /\ GridIsValid(StartGridTable[i])
        /\ ~IsSolved(StartGridTable[i])
        /\ HasCompletion(StartGridTable[i]) }

UnsolvableStarts ==
    { i \in 1..MaxGrid :
        /\ GridIsValid(StartGridTable[i])
        /\ ~IsSolved(StartGridTable[i])
        /\ ~HasCompletion(StartGridTable[i]) }

StartIndex == CHOOSE i \in 1..MaxGrid : StartGridTable[i] = m_startGrid

\* the grid of the vertex recorded as the solution
SolutionGrid == GetVertexState(m_startGrid, m_graph.m_vertices[m_vertexSolutionID])

\* C1: whenever an algorithm has returned true, m_vertexSolutionID names a
\* vertex present in the graph, and the grid reconstructed from it has no
\* empty cell, agrees with the start grid on every cell that was filled, and
\* repeats no digit in a row, a column or a box.
C1_SolutionIsACompletion ==
    solved = "true" =>
        /\ m_vertexSolutionID \in DOMAIN m_graph.m_vertices
        /\ \A solution \in {SolutionGrid} :
              /\ EmptyCells(solution) = {}
              /\ \A cell \in Cells :
                    m_startGrid[cell] # 0 => solution[cell] = m_startGrid[cell]
              /\ NoRepeatedDigit(solution)

C1_Witness ==
    /\ solved = "true"
    /\ pc = "report"
    /\ Cardinality(EmptyCells(m_startGrid)) >= 3
    /\ m_expandedStates >= 3
    /\ m_vertexSolutionID \in DOMAIN m_graph.m_vertices
    /\ \E solution \in {SolutionGrid} : NoRepeatedDigit(solution)

\* C2: on a valid start grid with an empty cell and a legal completion the
\* algorithm chosen (IDDFS with its default maxDepth) returns true and never
\* false or a fatal exit, whatever costs are drawn; when the start grid has
\* one empty cell the solution differs from it at that cell only.
C2_SolvableIsSolved ==
    StartIndex \in SolvableStarts
        => /\ solved \in {"none", "true"}
           /\ pc \in {"report", "done"} => solved = "true"
           /\ (solved = "true" /\ Cardinality(EmptyCells(m_startGrid)) = 1)
                 => /\ m_vertexSolutionID \in DOMAIN m_graph.m_vertices
                    /\ \A solution \in {SolutionGrid} : \A cell \in Cells :
                          solution[cell] # m_startGrid[cell]
                              <=> cell \in EmptyCells(m_startGrid)

C2_Witness ==
    /\ pc = "done"
    /\ solved = "true"
    /\ m_algorithm = "IDDFS"
    /\ depth = GRID_SIZE + 1
    /\ StartIndex \in SolvableStarts

\* C3: on a valid start grid with an empty cell and no legal completion the
\* algorithm never returns true and takes no fatal exit, m_vertexSolutionID
\* stays as constructed, and when the call is over the algorithm has
\* returned false with its frontier empty.
C3_UnsolvableReturnsFalse ==
    StartIndex \in UnsolvableStarts
        => /\ solved \in {"none", "false"}
           /\ pc # "exit"
           /\ m_vertexSolutionID = 0
           /\ pc \in {"report", "done"} => (solved = "false" /\ frontier = <<>>)

C3_Witness ==
    /\ pc = "done"
    /\ solved = "false"
    /\ frontier = <<>>
    /\ m_expandedStates > 0
    /\ StartIndex \in UnsolvableStarts

\* C4: every call of Solve comes to its end: the algorithm returns after
\* finitely many loop passes, whatever costs are drawn.
C4_SolveTerminates == <>(pc \in {"done", "exit"})

C4_Witness ==
    /\ pc = "done"
    /\ solved = "false"
    /\ m_algorithm = "IDDFS"
    /\ depth = DefaultMaxDepth
    /\ m_expandedStates >= DefaultMaxDepth

-----------------------------------------------------------------------------
(***************************************************************************)
(* Priority queue claims                                                   *)
(***************************************************************************)

\* the key the queue's comparator orders an element by
Priority(element) ==
    CASE m_comp = "Vertex"          -> ElementGraph.m_vertices[element].currentCost
      [] m_comp = "VertexHeuristic" -> ElementGraph.m_vertices[element].heuristicCost
      [] m_comp = "Less"            -> element

\* C11: in any interleaving of Push/Enqueue and Pop/Dequeue each element
\* taken out has a key no larger than the key of every element still in the
\* queue, the elements taken out since the last Push come in non-decreasing
\* key order, and together with the elements still held they are exactly the
\* elements that were in the queue at that Push (a drain is a permutation).
C11_PopsInPriorityOrder ==
    /\ \A x \in Elements : BagOf(drained)[x] + BagOf(m_heap)[x] = heapPushed[x]
    /\ \A i \in 1..(Len(drained) - 1) : Priority(drained[i]) <= Priority(drained[i + 1])
    /\ drained # <<>> =>
          \A i \in DOMAIN m_heap : Priority(drained[Len(drained)]) <= Priority(m_heap[i])

C11_Witness ==
    /\ m_heap = <<>>
    /\ m_comp = "VertexHeuristic"
    /\ Len(drained) = MaxHeap
    /\ heapRet.op \in {"Pop", "Dequeue"}
    /\ Cardinality({ Priority(drained[i]) : i \in DOMAIN drained }) >= 3
    /\ \E i \in 1..(Len(drained) - 1) : drained[i] > drained[i + 1]

\* C12: Peek, Pop and Dequeue on a queue without elements fail with the
\* queue's Empty error ("Queue is empty!") and leave the queue empty; on a
\* queue with elements Peek returns the element the next Dequeue returns
\* and leaves the queue as it is.
C12_EmptyAccessFailsWithEmptyError ==
    [][/\ (m_heap = <<>> /\ heapRet'.op \in {"Peek", "Pop", "Dequeue"})
            => /\ heapRet'.threw \in {"overflow_error: Queue is empty!",
                                      "underflow_error: Queue is empty!"}
               /\ m_heap' = <<>>
       /\ (m_heap # <<>> /\ heapRet'.op = "Peek")
            => /\ heapRet'.threw = "none"
               /\ heapRet'.element = m_heap[1]
               /\ m_heap' = m_heap]_vars

-----------------------------------------------------------------------------
(***************************************************************************)
(* Graph claims                                                            *)
(***************************************************************************)

\* the vertices that index the edge e of the edge table in their adjacency
\* table: its source, and in an undirected graph its other end as well
IndexedAt(g, e) ==
    IF g.directed THEN {g.m_edges[e].first}
    ELSE {g.m_edges[e].first, g.m_edges[e].second}

\* C13: after every AddVertex, AddEdge, RemoveEdge, RemoveVertex and Destroy
\* an edge ID is in the edge table iff it is in the adjacency table of its
\* source (directed) or of both its ends (undirected), and it is in the
\* adjacency table of no other vertex.
C13_AdjacencyAgreesWithEdgeTable ==
    /\ \A e \in DOMAIN graph.m_edges :
          /\ IndexedAt(graph, e) \subseteq DOMAIN graph.m_vertices
          /\ \A v \in IndexedAt(graph, e) : e \in graph.m_vertices[v].adjList
    /\ \A v \in DOMAIN graph.m_vertices : \A e \in graph.m_vertices[v].adjList :
          /\ e \in DOMAIN graph.m_edges
          /\ v \in IndexedAt(graph, e)

C13_Witness ==
    /\ ~graph.directed
    /\ graphRet.op = "RemoveEdge"
    /\ graphRet.res
    /\ \E e \in DOMAIN graph.m_edges :
          /\ graph.m_edges[e].first # graph.m_edges[e].second
          /\ e \in graph.m_vertices[graph.m_edges[e].second].adjList
    /\ \E v \in DOMAIN graph.m_vertices : graph.m_vertices[v].adjList = {}

\* C14: AddEdge(u, v, c) returns false iff u or v is not in the vertex
\* table; when it returns false the graph (vertex table, edge table, every
\* adjacency table, next edge ID) is unchanged, and when it returns true the
\* edge table has exactly one edge more, from u to v, under an ID that was
\* not in use and has not been handed out since the last Destroy.
C14_AddEdgeFailsIffEndAbsent ==
    [][graphRet'.op = "AddEdge" =>
         /\ graphRet'.res <=> (/\ graphRet'.arg[1] \in DOMAIN graph.m_vertices
                               /\ graphRet'.arg[2] \in DOMAIN graph.m_vertices)
         /\ ~graphRet'.res => graph' = graph
         /\ graphRet'.res =>
               \E e \in DOMAIN graph'.m_edges :
                  /\ e \notin DOMAIN graph.m_edges
                  /\ e = graphCalls.addEdge
                  /\ DOMAIN graph'.m_edges = DOMAIN graph.m_edges \cup {e}
                  /\ \A o \in DOMAIN graph.m_edges : graph'.m_edges[o] = graph.m_edges[o]
                  /\ graph'.m_edges[e].first = graphRet'.arg[1]
                  /\ graph'.m_edges[e].second = graphRet'.arg[2]
                  /\ graph'.m_EdgeCount = graph.m_EdgeCount + 1
                  /\ DOMAIN graph'.m_vertices = DOMAIN graph.m_vertices]_vars

C14_Witness ==
    /\ graphRet.op = "AddEdge"
    /\ ~graphRet.res
    /\ graphRet.arg[2] \in graphCalls.removedIDs
    /\ graphRet.arg[1] \in DOMAIN graph.m_vertices
    /\ graph.m_edges # <<>>

\* both ends of every edge of the edge table are in the vertex table
EndsPresent(g) ==
    \A e \in DOMAIN g.m_edges :
       g.m_edges[e].first \in DOMAIN g.m_vertices /\ g.m_edges[e].second \in DOMAIN g.m_vertices

\* C15: RemoveVertex(id) returns false and changes nothing when id is not in
\* the vertex table; otherwise it returns true, id is gone from the vertex
\* table and no edge of the edge table has id as an end, in a directed and in
\* an undirected graph.  After every operation both ends of every edge of
\* the edge table are in the vertex table.
C15_RemoveVertexLeavesNoEdgeOfIt ==
    [][/\ EndsPresent(graph')
       /\ graphRet'.op = "RemoveVertex" =>
             IF graphRet'.arg[1] \notin DOMAIN graph.m_vertices
             THEN ~graphRet'.res /\ graph' = graph
             ELSE /\ graphRet'.res
                  /\ DOMAIN graph'.m_vertices = DOMAIN graph.m_vertices \ {graphRet'.arg[1]}
                  /\ \A e \in DOMAIN graph'.m_edges :
                        /\ graph'.m_edges[e].first # graphRet'.arg[1]
                        /\ graph'.m_edges[e].second # graphRet'.arg[1]]_vars

C15_Witness ==
    /\ graph.directed
    /\ graphRet.op = "RemoveVertex"
    /\ graphRet.res
    /\ graphCalls.removeVertex = 1
    /\ graphCalls.removedEdges = 1
    /\ \E e \in DOMAIN graph.m_edges : e = 1
    /\ 0 \notin DOMAIN graph.m_edges

\* C16: GetNumVertices() is the number of AddVertex calls minus the number
\* of RemoveVertex calls that returned true, and GetNumEdges() the number of
\* AddEdge calls that returned true minus the number of edges removed, by
\* RemoveEdge or by RemoveVertex, each counted once: all since the last
\* Destroy (or the construction).
C16_CountsFollowTheCalls ==
    /\ GetNumVertices(graph) = graphCalls.addVertex - graphCalls.removeVertex
    /\ GetNumEdges(graph) = graphCalls.addEdge - graphCalls.removedEdges

C16_Witness ==
    /\ graphCalls.removeVertex >= 1
    /\ graphCalls.removedEdges >= 1
    /\ graphCalls.addEdge = MaxEdge
    /\ GetNumEdges(graph) = 1
    /\ GetNumVertices(graph) = 2
    /\ epoch >= 1

\* C17: between two Destroy calls AddVertex hands out the IDs 0, 1, 2, ...
\* in the order of the calls, every vertex is stored in the vertex table
\* under its own ID, and the ID of a removed vertex is not in use again.
C17_VertexIDsInCreationOrder ==
    /\ graphRet.op = "AddVertex" =>
          /\ graphRet.res = graphCalls.addVertex - 1
          /\ graphRet.res \in DOMAIN graph.m_vertices
    /\ \A id \in DOMAIN graph.m_vertices :
          /\ graph.m_vertices[id].id = id
          /\ id < graphCalls.addVertex
    /\ DOMAIN graph.m_vertices \cap graphCalls.removedIDs = {}

C17_Witness ==
    /\ graphRet.op = "AddVertex"
    /\ graphRet.res = 2
    /\ graphCalls.removedIDs = {0}
    /\ epoch >= 1

\* C19: Destroy leaves a graph of zero vertices and zero edges with both ID
\* counters reset; a Destroy that directly follows a Destroy changes nothing
\* and releases no edge; no Edge object is released twice, an Edge object
\* of the edge table is not released, and every Edge object created since
\* the last Destroy that has left the edge table was released once.
C19_DestroyIsIdempotent ==
    [][/\ \A object \in EdgeObjects : released'[object] <= 1
       /\ \A e \in EdgeIDs :
             released'[<<epoch', e>>] =
                IF e < graphCalls'.addEdge /\ e \notin DOMAIN graph'.m_edges THEN 1 ELSE 0
       /\ graphRet'.op = "Destroy" =>
             /\ GetNumVertices(graph') = 0
             /\ GetNumEdges(graph') = 0
             /\ graph'.m_vertexCount = 0
             /\ graph'.m_EdgeCount = 0
             /\ \A e \in EdgeIDs : e < graphCalls.addEdge => released'[<<epoch, e>>] = 1
             /\ graphRet.op = "Destroy" => graph' = graph /\ released' = released]_vars

C19_Witness ==
    /\ graphRet.op = "Destroy"
    /\ graphCalls.destroys = 2
    /\ \E e \in EdgeIDs : released[<<0, e>>] = 1
    /\ graph = EmptyGraph(graph.directed)

-----------------------------------------------------------------------------
(***************************************************************************)
(* Relaxation claim                                                        *)
(***************************************************************************)

\* C18: Relax(u, v, uv) returns true iff the call strictly decreases the
\* current cost of v; when it returns true the predecessor edge of v is uv
\* afterwards, and when it returns false the cost and the predecessor of v
\* are unchanged.
C18_RelaxTrueIffCostDecreases ==
    [][graphRet'.op = "Relax" =>
         \A v \in {graph.m_edges[graphRet'.arg[1]].second} :
            /\ graphRet'.res <=>
                  graph'.m_vertices[v].currentCost < graph.m_vertices[v].currentCost
            /\ graphRet'.res => graph'.m_vertices[v].predecessor = graphRet'.arg[1]
            /\ ~graphRet'.res =>
                  /\ graph'.m_vertices[v].currentCost = graph.m_vertices[v].currentCost
                  /\ graph'.m_vertices[v].predecessor = graph.m_vertices[v].predecessor]_vars

-----------------------------------------------------------------------------
(***************************************************************************)
(* Solve on a grid that is already complete                                *)
(***************************************************************************)

\* the start grids that repeat no digit and have no empty cell
SolvedStarts ==
    { i \in 1..MaxGrid :
        /\ NoRepeatedDigit(StartGridTable[i])
        /\ EmptyCells(StartGridTable[i]) = {} }

\* C20: when the start grid is valid and has no empty cell, Solve ends at
\* once with the start grid as its answer: it enters no algorithm and
\* reports no failure, the graph keeps zero vertices and zero edges, the
\* frontier stays empty and the expanded-state counter stays 0.
C20_SolvedStartRunsNoAlgorithm ==
    StartIndex \in SolvedStarts
        => /\ pc \in {"Solve", "done"}
           /\ solved = "none"
           /\ m_graph = EmptyGraph(Directed)
           /\ frontier = <<>>
           /\ m_expandedStates = 0

C20_Witness ==
    /\ StartIndex \in SolvedStarts
    /\ pc = "done"
    /\ m_algorithm = "A_STAR"
    /\ m_graph.m_vertexCount = 0
    /\ m_expandedStates = 0

-----------------------------------------------------------------------------
(***************************************************************************)
(* The loop passes of the algorithms.  A state with pc at an algorithm is  *)
(* the head of its loop; the vertex the next pass takes is the head of the *)
(* frontier.  The labels, children and edges a pass goes through are read  *)
(* off the operators the pass is made of.                                  *)
(***************************************************************************)

\* costs for the GenRandomCost calls of one ExpandNode
UnitCosts == [i \in 1..GRID_SIZE |-> 1]

HeapAlgorithms == {"UCS", "A_STAR", "GBFS"}

\* the head of a loop whose next pass expands the head of the frontier
AtPass ==
    /\ pc \in Algorithms
    /\ frontier # <<>>
    /\ pc = "IDDFS" => m_graph.m_vertices[Head(frontier)].currentCost <= depth

\* the solver after the pass has taken u and, in UCS, A* and GreedyBFS,
\* labelled it
Taken(u) ==
    IF pc \in HeapAlgorithms THEN MarkVisited(SolverState, u) ELSE SolverState

\* the order of the labels
Forward(before, after) ==
    /\ before \in {UNVISITED, PROCESSING, VISITED}
    /\ after \in {UNVISITED, PROCESSING, VISITED}
    /\ before <= after

\* C21: under every algorithm the label of a vertex only moves forward
\* along UNVISITED -> PROCESSING -> VISITED: through a pass the vertex taken
\* from the frontier goes from its label to the one it has once taken and
\* on to the one ExpandNode leaves it with, never backwards; a vertex that
\* a pass does not expand does not become PROCESSING in it and moves forward
\* if its label changes.
C21_LabelsOnlyMoveForward ==
    [][AtPass =>
         \A u \in {Head(frontier)} :
            \A taken \in {Taken(u)} :
               \A expanded \in {ExpandNode(taken, m_startGrid, u, UnitCosts)} :
                  /\ Forward(m_graph.m_vertices[u].label, taken.graph.m_vertices[u].label)
                  /\ Forward(taken.graph.m_vertices[u].label,
                             expanded.graph.m_vertices[u].label)
                  /\ \A v \in (DOMAIN m_graph'.m_vertices) \ {u} :
                        /\ v \in DOMAIN m_graph.m_vertices =>
                              Forward(m_graph.m_vertices[v].label,
                                      m_graph'.m_vertices[v].label)
                        /\ v \notin DOMAIN m_graph.m_vertices =>
                              Forward(UNVISITED, m_graph'.m_vertices[v].label)
                        /\ m_graph'.m_vertices[v].label = PROCESSING =>
                              /\ v \in DOMAIN m_graph.m_vertices
                              /\ m_graph.m_vertices[v].label = PROCESSING]_vars

\* the depth of a vertex in the search tree: every level fills one cell of
\* the grid, so it is the number of cells of its grid the start grid lacks
FilledCells(grid) == { cell \in Cells : grid[cell] # m_startGrid[cell] }

DepthOf(vertex) ==
    CHOOSE n \in { Cardinality(FilledCells(grid)) :
                     grid \in { GetVertexState(m_startGrid, vertex) } } : TRUE

\* C22: in the IDDFS iteration with depth limit d the current cost of a
\* vertex is its depth in the search tree (root 0, child = parent + 1), and
\* the vertex at the top of the stack is pruned iff its depth exceeds d.
C22_IDDFSPrunesByDepth ==
    pc = "IDDFS" =>
        /\ \A v \in DOMAIN m_graph.m_vertices :
              m_graph.m_vertices[v].currentCost = DepthOf(m_graph.m_vertices[v])
        /\ frontier # <<>> =>
              (AtPass <=> DepthOf(m_graph.m_vertices[Head(frontier)]) <= depth)

\* C23: the delta history of a child is the history of its father followed
\* by one (row, col, digit) assignment, so the history of every vertex is
\* as long as the vertex is deep in the search tree and names each cell
\* once.
C23_HistoryGrowsByOne ==
    \A v \in DOMAIN m_graph.m_vertices :
        \A vertex \in {m_graph.m_vertices[v]} :
           /\ Len(vertex.data) = DepthOf(vertex)
           /\ \A i \in DOMAIN vertex.data, j \in DOMAIN vertex.data :
                 i # j => vertex.data[i][1] # vertex.data[j][1]

\* C24: ExpandNode(father) creates one child vertex and one edge
\* father -> child for each digit 1..GRID_SIZE that IsValid accepts at the
\* first empty cell of the grid of the father, and nothing else; the grid
\* rebuilt from a child is the grid of the father with that one cell set to
\* the digit of the child.
C24_OneChildPerValidDigit ==
    AtPass =>
        \A u \in {Head(frontier)} :
           \A taken \in {Taken(u)}, grid \in {GetVertexState(m_startGrid, m_graph.m_vertices[u])} :
              \A expanded \in {ExpandNode(taken, m_startGrid, u, UnitCosts)},
                 cell \in {FindEmptyCell(grid)} :
                 \A children \in {(DOMAIN expanded.graph.m_vertices) \ DOMAIN m_graph.m_vertices},
                    edges \in {(DOMAIN expanded.graph.m_edges) \ DOMAIN m_graph.m_edges} :
                    /\ cell.found
                    /\ Cardinality(children) = Cardinality(ValidDigits(grid, cell))
                    /\ \A num \in ValidDigits(grid, cell) :
                          Cardinality({ c \in children :
                              GetVertexState(m_startGrid, expanded.graph.m_vertices[c])
                                  = Put(grid, <<cell.row, cell.col>>, num) }) = 1
                    /\ Cardinality(edges) = Cardinality(children)
                    /\ \A c \in children :
                          Cardinality({ e \in edges :
                              /\ expanded.graph.m_edges[e].first = u
                              /\ expanded.graph.m_edges[e].second = c }) = 1
                    /\ expanded.graph.m_vertices[u].adjList
                          = m_graph.m_vertices[u].adjList \cup edges
                    /\ \A v \in (DOMAIN m_graph.m_vertices) \ {u} :
                          expanded.graph.m_vertices[v] = m_graph.m_vertices[v]
                    /\ \A e \in DOMAIN m_graph.m_edges :
                          expanded.graph.m_edges[e] = m_graph.m_edges[e]
                    /\ expanded.expandedStates = m_expandedStates + Cardinality(children)

C24_Witness ==
    /\ AtPass
    /\ m_expandedStates >= 2
    /\ \A grid \in {GetVertexState(m_startGrid, m_graph.m_vertices[Head(frontier)])} :
          Cardinality(ValidDigits(grid, FindEmptyCell(grid))) >= 2

\* following predecessor edges from v reaches the root within n edges
RECURSIVE LeadsToRoot(_, _)
LeadsToRoot(v, n) ==
    /\ v \in DOMAIN m_graph.m_vertices
    /\ \/ v = 0
       \/ /\ n > 0
          /\ m_graph.m_vertices[v].predecessor \in DOMAIN m_graph.m_edges
          /\ LeadsToRoot(m_graph.m_edges[m_graph.m_vertices[v].predecessor].first, n - 1)

\* C25: when an algorithm has returned true the path from the root to the
\* goal is in the graph and is found by following predecessor edges from
\* the goal; at all times the predecessor edge recorded on a vertex of the
\* graph is an edge of the edge table.
C25_PredecessorsAreLiveEdges ==
    /\ \A v \in DOMAIN m_graph.m_vertices :
          m_graph.m_vertices[v].predecessor # NullEdge
              => m_graph.m_vertices[v].predecessor \in DOMAIN m_graph.m_edges
    /\ (pc = "report" /\ solved = "true")
          => LeadsToRoot(m_vertexSolutionID, GRID_SIZE * GRID_SIZE)

\* C26: in every algorithm a pass that expanded a vertex and examined its
\* edges without finding a goal has removed the vertex and its edges from
\* the graph when the next vertex is taken from the frontier.
C26_ExpandedVertexIsRemoved ==
    [][(AtPass /\ solved' = "none") =>
          /\ Head(frontier) \notin DOMAIN m_graph'.m_vertices
          /\ \A e \in DOMAIN m_graph'.m_edges :
                /\ m_graph'.m_edges[e].first # Head(frontier)
                /\ m_graph'.m_edges[e].second # Head(frontier)
          /\ \A v \in DOMAIN m_graph'.m_vertices :
                m_graph'.m_vertices[v].adjList \subseteq DOMAIN m_graph'.m_edges]_vars

C26_Witness ==
    /\ pc \in Algorithms
    /\ solved = "none"
    /\ m_expandedStates >= 2
    /\ frontier # <<>>
    /\ 0 \notin DOMAIN m_graph.m_vertices
    /\ m_graph.m_edges = <<>>
    /\ m_graph.m_EdgeCount >= 2

\* C27: while an algorithm runs every vertex held in its queue, stack or
\* priority queue is a vertex of the graph, and no GetVertex call meets an
\* absent ID: the call of Solve never ends the process.
C27_FrontierRefersToLiveVertices ==
    /\ pc \in Algorithms =>
          \A i \in DOMAIN frontier : frontier[i] \in DOMAIN m_graph.m_vertices
    /\ solved # "fatal"
    /\ pc # "exit"

C27_Witness ==
    /\ pc \in Algorithms
    /\ Len(frontier) >= 2
    /\ 0 \notin DOMAIN m_graph.m_vertices
    /\ \A i \in DOMAIN frontier : frontier[i] \in DOMAIN m_graph.m_vertices

\* C28: in BFS, UCS, A* and GreedyBFS, at the head of the loop the vertices
\* of the graph are the vertices held in the frontier, each once, and the
\* edge table is empty.
C28_GraphIsTheFrontier ==
    pc \in {"BFS", "UCS", "A_STAR", "GBFS"} =>
        /\ DOMAIN m_graph.m_vertices = { frontier[i] : i \in DOMAIN frontier }
        /\ Cardinality(DOMAIN m_graph.m_vertices) = Len(frontier)
        /\ m_graph.m_edges = <<>>

C28_Witness ==
    /\ pc \in HeapAlgorithms
    /\ Len(frontier) >= 2
    /\ m_expandedStates >= 2
    /\ DOMAIN m_graph.m_vertices = { frontier[i] : i \in DOMAIN frontier }

\* C29: within an IDDFS depth iteration, at the head of the inner loop the
\* vertices of the graph are the vertices on the stack: a vertex popped
\* from the stack has left the graph when the next one is popped.
C29_IDDFSGraphIsTheStack ==
    pc = "IDDFS" =>
        DOMAIN m_graph.m_vertices = { frontier[i] : i \in DOMAIN frontier }

\* a graph of the one vertex 0, with no history and no edge
FreshRoot(g) ==
    /\ DOMAIN g.m_vertices = {0}
    /\ g.m_vertices[0].id = 0
    /\ g.m_vertices[0].data = <<>>
    /\ g.m_vertices[0].adjList = {}
    /\ g.m_edges = <<>>

\* C30: CreateInitialState leaves the graph with the one vertex 0, labelled
\* UNVISITED, with an empty delta history, and with no edge, whatever the
\* graph held before; every algorithm run and every IDDFS depth iteration
\* starts with such a graph and the vertex 0 in its frontier.
C30_CreateInitialStateGivesFreshRoot ==
    [][/\ \A g \in {CreateInitialState(m_graph')} :
             FreshRoot(g) /\ g.m_vertices[0].label = UNVISITED
       /\ (\/ pc = "Solve" /\ pc' \in Algorithms
           \/ pc = "IDDFS" /\ pc' = "IDDFS" /\ depth' # depth)
             => FreshRoot(m_graph') /\ frontier' = <<0>>]_vars

C30_Witness ==
    /\ pc = "IDDFS"
    /\ depth >= 2
    /\ m_expandedStates >= 1
    /\ frontier = <<0>>
    /\ FreshRoot(m_graph)
    /\ m_graph.m_vertexCount = 1

-----------------------------------------------------------------------------
(***************************************************************************)
(* Costs and order of the frontier                                         *)
(***************************************************************************)

\* the cost of a vertex without its heuristic: what Relax adds the cost of
\* an edge to
PathCost(g, v) == g.m_vertices[v].currentCost - g.m_vertices[v].heuristicCost

\* C31: in A* the heuristic of a child is set before Relax is called on it:
\* a vertex a pass enqueues carries CalculateAStarHeuristic of itself, and
\* its current cost without that heuristic is the same difference on the
\* expanded vertex plus the cost of the edge between them.  The difference
\* is 0 on the root, so on every enqueued vertex it is the sum of the edge
\* costs from the root, is never negative, and the queue key currentCost is
\* path cost plus heuristic.  A vertex already in the queue keeps its costs.
C31_AStarKeyIsPathCostPlusHeuristic ==
    [][(pc = "A_STAR" /\ AtPass) =>
         \A u \in {Head(frontier)} :
            \A expanded \in {ExpandNode(Taken(u), m_startGrid, u, UnitCosts)} :
               /\ 0 \in DOMAIN m_graph.m_vertices => PathCost(m_graph, 0) = 0
               /\ \A i \in DOMAIN frontier : PathCost(m_graph, frontier[i]) >= 0
               /\ \A i \in DOMAIN frontier' :
                     \A v \in {frontier'[i]} :
                        IF v \in DOMAIN m_graph.m_vertices
                        THEN /\ m_graph'.m_vertices[v].currentCost
                                   = m_graph.m_vertices[v].currentCost
                             /\ m_graph'.m_vertices[v].heuristicCost
                                   = m_graph.m_vertices[v].heuristicCost
                        ELSE \E uv \in expanded.graph.m_vertices[u].adjList :
                                /\ expanded.graph.m_edges[uv].first = u
                                /\ expanded.graph.m_edges[uv].second = v
                                /\ m_graph'.m_vertices[v].heuristicCost
                                      = CalculateAStarHeuristic(m_startGrid,
                                                                m_graph'.m_vertices[v])
                                /\ PathCost(m_graph', v)
                                      = PathCost(m_graph, u) + expanded.graph.m_edges[uv].cost
                                /\ PathCost(m_graph', v) >= 0]_vars

C31_Witness ==
    /\ pc = "A_STAR"
    /\ Len(frontier) >= 2
    /\ 0 \notin DOMAIN m_graph.m_vertices
    /\ \A i \in DOMAIN frontier :
          /\ m_graph.m_vertices[frontier[i]].heuristicCost >= 1
          /\ PathCost(m_graph, frontier[i]) = 0

\* the key a priority queue orders its vertices by: the current cost under
\* compare::Vertex (UCS, A*), the heuristic under compare::VertexHeuristic
Key(g, algorithm, v) ==
    IF algorithm = "GBFS" THEN g.m_vertices[v].heuristicCost
    ELSE g.m_vertices[v].currentCost

\* C32: in UCS, A* and GreedyBFS the vertex a pass dequeues is UNVISITED and
\* no vertex in the queue at that moment has a smaller key, the key being
\* the current cost in UCS and A* and the heuristic alone in GreedyBFS, as
\* the vertex holds it when it is dequeued.
C32_DequeuedIsUnvisitedMinimum ==
    (pc \in HeapAlgorithms /\ frontier # <<>>) =>
        /\ m_graph.m_vertices[Head(frontier)].label = UNVISITED
        /\ \A i \in DOMAIN frontier :
              Key(m_graph, pc, Head(frontier)) <= Key(m_graph, pc, frontier[i])

C32_Witness ==
    /\ pc \in HeapAlgorithms
    /\ Len(frontier) >= 2
    /\ m_graph.m_vertices[Head(frontier)].label = UNVISITED
    /\ \E i \in DOMAIN frontier :
          Key(m_graph, pc, Head(frontier)) < Key(m_graph, pc, frontier[i])

\* C33: BFS takes the vertices from its queue in the order they were
\* enqueued: a pass removes the first element and appends the children it
\* discovers, in the order of their creation, behind the vertices that were
\* waiting.  The depths along the queue therefore never decrease, so the
\* vertex expanded next is no deeper than any vertex still waiting: no
\* vertex of depth d+1 is expanded while one of depth d is in the queue.
C33_BFSExpandsInDepthOrder ==
    [][(pc = "BFS" /\ frontier # <<>>) =>
         /\ \A i \in DOMAIN frontier, j \in DOMAIN frontier :
               i < j => DepthOf(m_graph.m_vertices[frontier[i]])
                           <= DepthOf(m_graph.m_vertices[frontier[j]])
         /\ Len(frontier') >= Len(frontier) - 1
         /\ SubSeq(frontier', 1, Len(frontier) - 1) = Tail(frontier)
         /\ \A i \in Len(frontier)..Len(frontier') :
               /\ frontier'[i] \notin DOMAIN m_graph.m_vertices
               /\ frontier'[i] \in DOMAIN m_graph'.m_vertices
               /\ DepthOf(m_graph'.m_vertices[frontier'[i]])
                     = DepthOf(m_graph.m_vertices[Head(frontier)]) + 1
               /\ i > Len(frontier) => frontier'[i - 1] < frontier'[i]]_vars

C33_Witness ==
    /\ pc = "BFS"
    /\ Len(frontier) >= 2
    /\ 0 \notin DOMAIN m_graph.m_vertices
    /\ DepthOf(m_graph.m_vertices[Head(frontier)])
          < DepthOf(m_graph.m_vertices[frontier[Len(frontier)]])

-----------------------------------------------------------------------------
(***************************************************************************)
(* Independence of the costs drawn by GenRandomCost                        *)
(***************************************************************************)

CostFreeAlgorithms == {"BFS", "UCS", "A_STAR", "GBFS"}

\* one pass of the loop of an algorithm with the given draws
Pass(s, algorithm, costs) ==
    CASE algorithm = "BFS"    -> LoopBFS(s, m_startGrid, costs)
      [] algorithm = "UCS"    -> LoopUCS(s, m_startGrid, costs)
      [] algorithm = "A_STAR" -> LoopAStar(s, m_startGrid, costs)
      [] algorithm = "GBFS"   -> LoopGreedyBFS(s, m_startGrid, costs)

\* what a run lets be seen of a solver state: the frontier in its order,
\* the result, the solution vertex, the counters and the graph.  The cost
\* GenRandomCost gave a child stays on it until Relax overwrites it, which
\* UCS and A* do before they enqueue the child and BFS and GreedyBFS never
\* do; it is left out where it was not overwritten.
Seen(s, algorithm) ==
    [s EXCEPT !.graph.m_vertices =
        [v \in DOMAIN @ |->
            IF algorithm \in {"BFS", "GBFS"}
               \/ \A i \in DOMAIN s.frontier : s.frontier[i] # v
            THEN [@[v] EXCEPT !.currentCost = 0]
            ELSE @[v]]]

\* C34: in BFS, UCS, A* and GreedyBFS what a pass leaves to be seen (queue
\* contents and order, hence the vertex dequeued next, the boolean result,
\* the solution vertex and its history, the expanded-state count) is the
\* same whatever GenRandomCost returned: it is what the pass gives with
\* every draw equal to 1 when started from what was seen before it.  Two
\* runs on one start grid that differ only in the draws thus dequeue the
\* same vertices in the same order and end with the same result and grid.
C34_RunsDoNotDependOnDraws ==
    [][(pc \in CostFreeAlgorithms /\ frontier # <<>>) =>
          \A before \in {Seen(SolverState, pc)} :
             \A after \in {Pass(before, pc, UnitCosts)} :
                /\ Seen([graph |-> m_graph', frontier |-> frontier',
                         vertexSolutionID |-> m_vertexSolutionID',
                         expandedStates |-> m_expandedStates',
                         solved |-> solved', depth |-> depth'], pc)
                      = Seen(after, pc)
                /\ Head(frontier) = Head(before.frontier)]_vars

C34_Witness ==
    /\ pc \in {"BFS", "GBFS"}
    /\ Len(frontier) >= 2
    /\ m_expandedStates >= 3
    /\ m_graph.m_vertices[frontier[1]].currentCost = 1
    /\ m_graph.m_vertices[frontier[2]].currentCost = GRID_SIZE + 1

-----------------------------------------------------------------------------
(***************************************************************************)
(* Insertions into the frontier and calls of ExpandNode                    *)
(***************************************************************************)

\* the vertices a frontier holds, and how often it holds v
Held(f) == { f[i] : i \in DOMAIN f }

TimesHeld(f, v) == Cardinality({ i \in DOMAIN f : f[i] = v })

\* C35: in every algorithm run and every IDDFS depth iteration a vertex is
\* inserted into the frontier at most once and expanded at most once: the
\* frontier holds no vertex twice, a pass inserts only vertices whose ID
\* the graph had not handed out before in this run or iteration, and the
\* vertex it takes out does not come back.  In UCS, A* and GreedyBFS every
\* child the pass created that is not a goal is in the queue once after it.
C35_InsertedAndExpandedOnce ==
    [][(pc \in Algorithms /\ frontier # <<>>) =>
         /\ \A v \in Held(frontier) :
               TimesHeld(frontier, v) = 1 /\ v < m_graph.m_vertexCount
         /\ \A v \in Held(frontier') : TimesHeld(frontier', v) = 1
         /\ Head(frontier) \notin Held(frontier')
         /\ \A v \in Held(frontier') \ Held(frontier) : v >= m_graph.m_vertexCount
         /\ pc \in HeapAlgorithms =>
               \A u \in {Head(frontier)} :
                  \A expanded \in {ExpandNode(Taken(u), m_startGrid, u, UnitCosts)} :
                     \A c \in (DOMAIN expanded.graph.m_vertices)
                                 \ DOMAIN m_graph.m_vertices :
                        ~CheckSolution(m_startGrid, expanded.graph.m_vertices[c])
                            => TimesHeld(frontier', c) = 1]_vars

C35_Witness ==
    /\ pc \in HeapAlgorithms
    /\ m_graph.m_vertexCount >= 4
    /\ Cardinality(Held(frontier)) >= 2
    /\ \A v \in Held(frontier) : v # 0 /\ TimesHeld(frontier, v) = 1

\* C36: when the algorithms are entered through Solve, every vertex
\* ExpandNode is called on has a grid with at least one empty cell: the
\* FindEmptyCell call whose result ExpandNode ignores returns true, and the
\* row and the column it yields are inside the grid.
C36_ExpandNodeFindsAnEmptyCell ==
    AtPass =>
        \A grid \in {GetVertexState(m_startGrid, m_graph.m_vertices[Head(frontier)])} :
           \A cell \in {FindEmptyCell(grid)} :
              /\ EmptyCells(grid) # {}
              /\ cell.found
              /\ cell.row \in Index
              /\ cell.col \in Index
              /\ grid[<<cell.row, cell.col>>] = 0

C36_Witness ==
    /\ AtPass
    /\ Head(frontier) # 0
    /\ m_expandedStates >= 2
    /\ \A grid \in {GetVertexState(m_startGrid, m_graph.m_vertices[Head(frontier)])} :
          /\ Cardinality(EmptyCells(grid)) = 1
          /\ FindEmptyCell(grid).found

-----------------------------------------------------------------------------
(***************************************************************************)
(* The binary heap under the default comparator                            *)
(***************************************************************************)

\* how many elements a bag of elements holds
RECURSIVE BagSize(_, _)
BagSize(bag, upTo) ==
    IF upTo < 0 THEN 0 ELSE bag[upTo] + BagSize(bag, upTo - 1)

\* the element at index i (0-based, as in the code) has priority over the
\* element at the index of its parent
AboveParent(i) ==
    Comp(ElementGraph, m_comp, m_heap[i + 1], m_heap[((i - 1) \div 2) + 1])

\* C37: on a binary heap with a strict total order as comparator
\* (comparators::Less on the elements), after every Push and every Pop no
\* element at an index i > 0 has priority over the element at (i-1)/2, and
\* Size() is the number of pushes minus the number of pops.
C37_ParentPriorityAndSize ==
    m_comp = "Less" =>
        /\ \A i \in 1..(Len(m_heap) - 1) : ~AboveParent(i)
        /\ Len(m_heap) = BagSize(heapPushed, MaxElement) - Len(drained)

C37_Witness ==
    /\ m_comp = "Less"
    /\ heapRet.op = "Pop"
    /\ heapRet.threw = "none"
    /\ Len(drained) >= 1
    /\ Len(m_heap) = MaxHeap - 1
    /\ m_heap[2] > m_heap[3]
    /\ \A i \in 1..(Len(m_heap) - 1) : ~AboveParent(i)

-----------------------------------------------------------------------------
(***************************************************************************)
(* SpecTreeInsert: a client that only ever calls Insert on one             *)
(* RedBlackTree<typeT>                                                     *)
(***************************************************************************)

MaxInsertKey == 7

InsertKeys == 1..MaxInsertKey

NextTreeInsert ==
    \E k \in InsertKeys : RBInsert(k) /\ UNCHANGED <<solverVars, heapVars, graphVars>>

SpecTreeInsert == InitTree /\ [][NextTreeInsert]_vars

-----------------------------------------------------------------------------
(***************************************************************************)
(* Shape of the red-black tree                                             *)
(***************************************************************************)

\* the nodes met by an in-order walk from node that follows the child
\* links, at most fuel levels deep
RECURSIVE InOrder(_, _, _)
InOrder(t, node, fuel) ==
    IF node = NIL \/ node \notin DOMAIN t.nodes \/ fuel = 0 THEN <<>>
    ELSE InOrder(t, t.nodes[node].left, fuel - 1)
            \o <<node>>
            \o InOrder(t, t.nodes[node].right, fuel - 1)

Walk(t) == InOrder(t, t.root, Cardinality(DOMAIN t.nodes) + 1)

\* the in-order walk meets strictly growing keys: a binary search tree
\* without a key twice
IsSearchTree(t) ==
    \A walk \in {Walk(t)} :
       \A i \in 1..(Len(walk) - 1) :
          PairLess(t.nodes[walk[i]].key, t.nodes[walk[i + 1]].key)

\* C38: after any sequence of Insert calls and no removal the root is
\* BLACK, no RED node has a RED child, every path from the root to a null
\* leaf holds the same number of BLACK nodes, and the tree is a binary
\* search tree with no key twice: an in-order walk from the root meets
\* every node, Size() of them, with strictly growing keys.
C38_RedBlackAfterInserts ==
    /\ RedBlack(m_tree)
    /\ IsSearchTree(m_tree)
    /\ \A walk \in {Walk(m_tree)} :
          /\ Len(walk) = TreeSize(m_tree)
          /\ { walk[i] : i \in DOMAIN walk } = DOMAIN m_tree.nodes

C38_Witness ==
    /\ TreeSize(m_tree) = MaxInsertKey
    /\ RedBlack(m_tree)
    /\ \E n \in DOMAIN m_tree.nodes :
          /\ m_tree.nodes[n].color = RED
          /\ m_tree.nodes[n].left # NIL
          /\ m_tree.nodes[n].right # NIL
          /\ m_tree.nodes[n].parent # NIL

\* the links of node and of its children agree
LinksAgree(t, n) ==
    /\ t.nodes[n].left # NIL =>
          /\ t.nodes[n].left \in DOMAIN t.nodes
          /\ t.nodes[t.nodes[n].left].parent = n
    /\ t.nodes[n].right # NIL =>
          /\ t.nodes[n].right \in DOMAIN t.nodes
          /\ t.nodes[t.nodes[n].right].parent = n
    /\ t.nodes[n].parent = NIL => t.root = n

\* C39: after every Insert and Remove, with the rotations and transplants
\* they perform, the root has no parent, the left and the right child of
\* every node name that node as their parent, every node is reached from the
\* root exactly once, the keys are in binary-search order, and the number of
\* nodes is Size().
C39_LinksAreConsistent ==
    /\ m_tree.root # NIL =>
          /\ m_tree.root \in DOMAIN m_tree.nodes
          /\ m_tree.nodes[m_tree.root].parent = NIL
    /\ m_tree.root = NIL => DOMAIN m_tree.nodes = {}
    /\ \A n \in DOMAIN m_tree.nodes : LinksAgree(m_tree, n)
    /\ \A walk \in {Walk(m_tree)} :
          /\ \A n \in DOMAIN m_tree.nodes :
                Cardinality({ i \in DOMAIN walk : walk[i] = n }) = 1
          /\ Len(walk) = Cardinality(DOMAIN m_tree.nodes)
          /\ Len(walk) = TreeSize(m_tree)
    /\ IsSearchTree(m_tree)

C39_Witness ==
    /\ TreeSize(m_tree) = MaxTreeKey - 1
    /\ Cardinality(DOMAIN m_tree.nodes) = MaxTreeKey - 1
    /\ \E k \in TreeKeys : Search(m_tree, k) = NIL
    /\ \A n \in DOMAIN m_tree.nodes : LinksAgree(m_tree, n)
    /\ m_tree.nodes[m_tree.root].left # NIL
    /\ m_tree.nodes[m_tree.root].right # NIL
    /\ ~EqualBlackCount(m_tree)

=============================================================================
